---- MODULE Spec2Model ----
(***************************************************************************)
(* A model of the cstore writer (src/cstore_writer.c): the stripe          *)
(* assembler (CStoreWriteRow), the stripe flusher (FlushStripe), the paged *)
(* data-fork writer (WriteToFile) and the footer-fork writer               *)
(* (CStoreWriteFooter), together with the host events the writer has to    *)
(* tolerate: a caller abandoning a session, and a crash followed by WAL    *)
(* replay.                                                                 *)
(*                                                                         *)
(* Arrays of the C code are functions over 0..n-1 and keep the source's    *)
(* indices; byte buffers (StringInfo) and lists are sequences.  A byte of  *)
(* a buffer is a natural number.                                           *)
(***************************************************************************)
EXTENDS Integers, Naturals, Sequences, FiniteSets, TLC

VARIABLES
    dataFork,           \* DATA_FORKNUM as the buffer manager shows it: a sequence of pages
    footerFork,         \* FOOTER_FORKNUM likewise; block 0 is the header page
    dataForkExists,     \* smgrexists(srel, DATA_FORKNUM)
    dataDisk,           \* durable image of the data fork at the last checkpoint
    footerDisk,         \* durable image of the footer fork at the last checkpoint
    wal,                \* WAL records emitted since the last checkpoint
    pc,                 \* "idle" | "open" (between begin and end) | "footer" (inside CStoreWriteFooter)
    writeState,         \* TableWriteState: the scalar fields and the table footer
    stripeBuffers,      \* writeState->stripeBuffers (valid = FALSE models NULL)
    stripeSkipList,     \* writeState->stripeSkipList
    blockDataArray,     \* writeState->blockDataArray: per column existsArray and valueBuffer
    footerWrite,        \* locals of CStoreWriteFooter that live across its page loop
    pinned,             \* the buffers the writer holds pinned and exclusively locked
    events,             \* the buffer-manager calls of the last step, in program order
    history             \* what the caller did and what was flushed: read by the properties only

vars == <<dataFork, footerFork, dataForkExists, dataDisk, footerDisk, wal, pc, writeState,
          stripeBuffers, stripeSkipList, blockDataArray, footerWrite, pinned, events,
          history>>

----------------------------------------------------------------------------
(* Bounds of the model *)

\* CSTORE_PAGE_DATA_SIZE, the payload capacity of a page, scaled down so that
\* stripes and footers span several pages
PageDataSize == 8

\* rows written over a whole run
MaxRows == 3

\* begin_write calls over a whole run
MaxSessions == 2

\* the same of a run with a crash
MaxCrashRows == 2
MaxCrashSessions == 3

\* crashes over a whole run
MaxCrashes == 1

----------------------------------------------------------------------------
(* Program constants *)

COMPRESSION_NONE == 0
COMPRESSION_PG_LZ == 1

CSTORE_POSTSCRIPT_SIZE_MAX == 256

CompressionTypes == {COMPRESSION_NONE, COMPRESSION_PG_LZ}

\* the (stripe_max_row_count, block_row_count) pairs a caller passes to
\* begin_write: a stripe of whole blocks, and one whose last block is partial.
\* A session resumed over a footer keeps the footer's block_row_count, which
\* gives the other two pairings.
StripeShapes ==
    { [stripeMaxRowCount |-> 2, blockRowCount |-> 1],
      [stripeMaxRowCount |-> 3, blockRowCount |-> 2] }

BlockRowCounts == { shape.blockRowCount : shape \in StripeShapes }

\* the stripe shape of the runs with a crash
CrashShape ==
    CHOOSE shape \in StripeShapes :
        \A other \in StripeShapes : shape.stripeMaxRowCount <= other.stripeMaxRowCount

\* the memory an exists array index can land in: the largest block_row_count
ExistsSpan == CHOOSE n \in BlockRowCounts : \A m \in BlockRowCounts : m <= n

----------------------------------------------------------------------------
(* Arithmetic and sequence helpers *)

Min(a, b) == IF a < b THEN a ELSE b

Max(a, b) == IF a > b THEN a ELSE b

RECURSIVE Pow(_, _)
Pow(b, n) == IF n = 0 THEN 1 ELSE b * Pow(b, n - 1)

\* f[0] \o f[1] \o ... \o f[n-1]
RECURSIVE Concat(_, _)
Concat(f, n) == IF n = 0 THEN <<>> ELSE Concat(f, n - 1) \o f[n - 1]

\* f[0] + f[1] + ... + f[n-1]
RECURSIVE SumTo(_, _)
SumTo(f, n) == IF n = 0 THEN 0 ELSE SumTo(f, n - 1) + f[n - 1]

\* len bytes of s after the first off bytes; reads past the end give 0
Sub(s, off, len) == [i \in 1..len |-> IF off + i <= Len(s) THEN s[off + i] ELSE 0]

Zeros(n) == [i \in 1..n |-> 0]

\* the n low bytes of v, least significant first
BytesLE(v, n) == [i \in 1..n |-> (v \div Pow(256, i - 1)) % 256]

RECURSIVE FromBytesLE(_)
FromBytesLE(s) == IF s = <<>> THEN 0 ELSE s[1] + 256 * FromBytesLE(Tail(s))

----------------------------------------------------------------------------
(* The schema (writeState->tupleDescriptor) and the caller's datums *)

\* tupleDescriptor->attrs: column 0 is a one-byte by-value type aligned to 2 with a
\* B-tree comparison function; column 1 is a varlena type without one
Attrs ==
    << [attlen |-> 1, attbyval |-> TRUE, attalign |-> 2, hasComparison |-> TRUE],
       [attlen |-> -1, attbyval |-> FALSE, attalign |-> 1, hasComparison |-> FALSE] >>

natts == Len(Attrs)

Columns == 0..(natts - 1)

Att(columnIndex) == Attrs[columnIndex + 1]

\* the non-null datums of each column: a by-value datum is a number, a varlena
\* datum is its bytes, the first of which is its header holding the total size
ColumnDatums(columnIndex) == IF columnIndex = 0 THEN {1, 2, 3} ELSE { <<2, 7>> }

\* what columnValues[c] holds when columnNulls[c] is set
NullDatum(columnIndex) == IF columnIndex = 0 THEN 0 ELSE <<>>

\* one cell of a row: columnValues[c] with columnNulls[c]
Cells(columnIndex) ==
    { [value |-> NullDatum(columnIndex), isNull |-> TRUE] }
    \cup { [value |-> v, isNull |-> FALSE] : v \in ColumnDatums(columnIndex) }

\* the (columnValues, columnNulls) pairs a caller passes to write_row
AllRows ==
    { [c \in Columns |-> IF c = 0 THEN first ELSE second] :
        first \in Cells(0), second \in Cells(1) }

\* the rows the model submits: every cell of column 0, with column 1 null next
\* to the two larger datums, so that the two columns' null patterns differ
RowInputs == { row \in AllRows : row[1].isNull <=> (~row[0].isNull /\ row[0].value > 1) }

\* the rows of the runs with a crash: one with a null cell and one without
CrashRowInputs == { row \in RowInputs : ~row[1].isNull }

\* FunctionCall2Coll(comparisonFunction, collation, a, b) of column 0: a total
\* preorder in which the datums 1 and 2 compare equal and 3 is greater
SortKey(v) == (v + 1) \div 2

FunctionCall2Coll(a, b) ==
    IF SortKey(a) < SortKey(b) THEN -1 ELSE IF SortKey(a) > SortKey(b) THEN 1 ELSE 0

----------------------------------------------------------------------------
(* Datum serializer *)

\* att_addlength_datum(0, attlen, datum)
DatumLength(att, datum) ==
    IF att.attlen > 0 THEN att.attlen
    ELSE IF att.attlen = -1 THEN datum[1]
    ELSE Len(datum)

\* att_align_nominal(length, attalign)
AlignNominal(length, attalign) == ((length + attalign - 1) \div attalign) * attalign

SerializeSingleDatum(datumBuffer, datum, att) ==
    LET datumLength == DatumLength(att, datum)
        datumLengthAligned == AlignNominal(datumLength, att.attalign)
        stored ==
            IF att.attlen > 0
            THEN IF att.attbyval THEN BytesLE(datum, att.attlen)
                 ELSE Sub(datum, 0, att.attlen)
            ELSE Sub(datum, 0, datumLength)
    IN datumBuffer \o stored \o Zeros(datumLengthAligned - datumLength)

\* buffer[byteIndex] |= (1 << bitIndex)
OrBit(byte, bitIndex) ==
    IF (byte \div Pow(2, bitIndex)) % 2 = 1 THEN byte ELSE byte + Pow(2, bitIndex)

RECURSIVE SetBoolBits(_, _, _, _)
SetBoolBits(buffer, boolArray, boolArrayIndex, boolArrayLength) ==
    IF boolArrayIndex >= boolArrayLength THEN buffer
    ELSE SetBoolBits(
            IF boolArray[boolArrayIndex]
            THEN [buffer EXCEPT ![(boolArrayIndex \div 8) + 1] = OrBit(@, boolArrayIndex % 8)]
            ELSE buffer,
            boolArray, boolArrayIndex + 1, boolArrayLength)

SerializeBoolArray(boolArray, boolArrayLength) ==
    LET byteCount == (boolArrayLength + 7) \div 8
    IN SetBoolBits(Zeros(byteCount), boolArray, 0, boolArrayLength)

CopyStringInfo(sourceString) ==
    IF Len(sourceString) > 0
    THEN [i \in 1..Len(sourceString) |-> sourceString[i]]
    ELSE <<>>

----------------------------------------------------------------------------
(* The codec (cstore_compression.c) *)

RECURSIVE PackBytes(_)
PackBytes(s) == IF s = <<>> THEN 0 ELSE s[1] + 16 * PackBytes(Tail(s))

RECURSIVE UnpackBytes(_, _)
UnpackBytes(packed, n) ==
    IF n = 0 THEN <<>> ELSE <<packed % 16>> \o UnpackBytes(packed \div 16, n - 1)

\* CompressBuffer(input, scratch, kind): the codec succeeds only when its output
\* (the raw size followed by the packed bytes) is strictly smaller than the input
CompressBuffer(inputBuffer, compressionType) ==
    IF compressionType = COMPRESSION_PG_LZ /\ Len(inputBuffer) > 2
    THEN [compressed |-> TRUE, output |-> <<Len(inputBuffer), PackBytes(inputBuffer)>>]
    ELSE [compressed |-> FALSE, output |-> <<>>]

DecompressBuffer(buffer, compressionType) ==
    IF compressionType = COMPRESSION_PG_LZ
    THEN UnpackBytes(Sub(buffer, 1, 1)[1], Sub(buffer, 0, 1)[1])
    ELSE buffer

----------------------------------------------------------------------------
(* Skip nodes, block buffers and the metadata serializer                   *)
(* (cstore_metadata_serialization.c)                                       *)

\* a ColumnBlockSkipNode as palloc0 leaves it
EmptySkipNode ==
    [rowCount |-> 0, hasMinMax |-> FALSE, minimumValue |-> 0, maximumValue |-> 0,
     existsBlockOffset |-> 0, existsLength |-> 0,
     valueBlockOffset |-> 0, valueLength |-> 0,
     valueCompressionType |-> COMPRESSION_NONE]

\* a ColumnBlockBuffers as CreateEmptyStripeBuffers leaves it: both buffers NULL
EmptyBlockBuffers ==
    [existsBuffer |-> <<>>, existsBufferNull |-> TRUE,
     valueBuffer |-> <<>>, valueBufferNull |-> TRUE,
     valueCompressionType |-> COMPRESSION_NONE]

BoolByte(b) == IF b THEN 1 ELSE 0

SerializeSkipNode(node, att) ==
    <<node.rowCount, node.existsBlockOffset, node.existsLength,
      node.valueBlockOffset, node.valueLength, node.valueCompressionType,
      BoolByte(node.hasMinMax)>>
    \o (IF node.hasMinMax
        THEN SerializeSingleDatum(<<>>, node.minimumValue, att)
             \o SerializeSingleDatum(<<>>, node.maximumValue, att)
        ELSE <<>>)

SerializeColumnSkipList(blockSkipNodeArray, blockCount, att) ==
    Concat([b \in 0..(blockCount - 1) |-> SerializeSkipNode(blockSkipNodeArray[b], att)],
           blockCount)

SerializeStripeFooter(stripeFooter) ==
    Concat([c \in Columns |-> <<stripeFooter.skipListSizeArray[c],
                                 stripeFooter.existsSizeArray[c],
                                 stripeFooter.valueSizeArray[c]>>], natts)

SerializeStripeMetadata(m) == <<m.fileOffset, m.skipListLength, m.dataLength, m.footerLength>>

SerializeTableFooter(tableFooter) ==
    <<tableFooter.blockRowCount>>
    \o Concat([i \in 0..(Len(tableFooter.stripeMetadataList) - 1) |->
                  SerializeStripeMetadata(tableFooter.stripeMetadataList[i + 1])],
              Len(tableFooter.stripeMetadataList))

DeserializeTableFooter(buffer) ==
    [blockRowCount |-> buffer[1],
     stripeMetadataList |->
        [i \in 1..((Len(buffer) - 1) \div 4) |->
            [fileOffset |-> buffer[4 * i - 2], skipListLength |-> buffer[4 * i - 1],
             dataLength |-> buffer[4 * i], footerLength |-> buffer[4 * i + 1]]]]

SerializePostScript(tableFooterLength) == <<tableFooterLength>>

SerializeTableFooterMetadata(startingBlock, blockCount) == <<startingBlock, blockCount>>

\* yields startingBlock = 0 when the header payload does not parse
DeserializeTableFooterMetadata(page) ==
    IF page.init /\ Len(page.data) = 2
    THEN [startingBlock |-> page.data[1], blockCount |-> page.data[2]]
    ELSE [startingBlock |-> 0, blockCount |-> 0]

----------------------------------------------------------------------------
(* Pages and the data-fork writer *)

\* a page the buffer manager hands out for P_NEW, or one never written back: all
\* zero bytes, pd_lower = pd_upper = 0
ZeroPage == [init |-> FALSE, data |-> <<>>]

\* PageInit(page, BLCKSZ, 0): pd_lower = SizeOfPageHeaderData, pd_upper = BLCKSZ;
\* data is the payload, pd_lower - SizeOfPageHeaderData bytes long
PageInit == [init |-> TRUE, data |-> <<>>]

\* a capacity that leaves the last byte of every page unused
PageFreeSpaceShort(page) ==
    IF page.init /\ Len(page.data) < PageDataSize
    THEN PageDataSize - Len(page.data) - 1
    ELSE 0

\* pd_upper - pd_lower
PageFreeSpace(page) == IF page.init THEN PageDataSize - Len(page.data) ELSE 0

NewPageRecord(forkName, blockNumber, page) ==
    [kind |-> "newpage", fork |-> forkName, block |-> blockNumber, page |-> page]

\* a call the writer makes on the buffer of block blockNumber of a fork
BufferCall(op, forkName, blockNumber) == [op |-> op, fork |-> forkName, block |-> blockNumber]

\* if (writeState->logging) LOG_NEWPAGE_BUFFER(buffer)
DataPageLogged(logging) == logging

\* an iteration that marks the buffer dirty after it left the critical section
DataPageCallsDirtyLate(blockNumber, isNew, logging) ==
    << BufferCall("ReadBufferExtended", "data", blockNumber),
       BufferCall("LockBuffer", "data", blockNumber),
       BufferCall("START_CRIT_SECTION", "data", blockNumber) >>
    \o (IF isNew THEN << BufferCall("PageInit", "data", blockNumber) >> ELSE << >>)
    \o << BufferCall("memcpy", "data", blockNumber) >>
    \o (IF DataPageLogged(logging)
        THEN << BufferCall("LOG_NEWPAGE_BUFFER", "data", blockNumber) >> ELSE << >>)
    \o << BufferCall("END_CRIT_SECTION", "data", blockNumber),
          BufferCall("MarkBufferDirty", "data", blockNumber),
          BufferCall("UnlockReleaseBuffer", "data", blockNumber) >>

\* the calls of one iteration of the loop of WriteToFile, on the block it got
DataPageCalls(blockNumber, isNew, logging) ==
    << BufferCall("ReadBufferExtended", "data", blockNumber),
       BufferCall("LockBuffer", "data", blockNumber),
       BufferCall("START_CRIT_SECTION", "data", blockNumber) >>
    \o (IF isNew THEN << BufferCall("PageInit", "data", blockNumber) >> ELSE << >>)
    \o << BufferCall("memcpy", "data", blockNumber),
          BufferCall("MarkBufferDirty", "data", blockNumber) >>
    \o (IF DataPageLogged(logging)
        THEN << BufferCall("LOG_NEWPAGE_BUFFER", "data", blockNumber) >> ELSE << >>)
    \o << BufferCall("END_CRIT_SECTION", "data", blockNumber),
          BufferCall("UnlockReleaseBuffer", "data", blockNumber) >>

\* a copy that starts at the head of the payload instead of at pd_lower
PagePlaceAtHead(page, bytes) ==
    [page EXCEPT !.data = bytes \o SubSeq(@, Len(bytes) + 1, Len(@))]

\* memcpy(pageData + pageOffset, ...) and pd_lower += copySize
PagePlace(page, bytes) == [page EXCEPT !.data = @ \o bytes]

\* the while loop of WriteToFile; file is [fork, activeBlockNumber, wal, events], data
\* the bytes from dataOffset on, blockCount the fork size read at entry
RECURSIVE WriteToFileLoop(_, _, _, _, _)
WriteToFileLoop(file, blockNumber, blockCount, data, logging) ==
    IF Len(data) = 0 THEN file
    ELSE
        LET isNew == blockNumber >= blockCount
            actualBlock == IF isNew THEN Len(file.fork) ELSE blockNumber
            page == IF isNew THEN PageInit ELSE file.fork[actualBlock + 1]
            remainingCapacity == PageFreeSpace(page)
            copySize == Min(remainingCapacity, Len(data))
            written == PagePlace(page, SubSeq(data, 1, copySize))
            fork == IF isNew THEN Append(file.fork, written)
                    ELSE [file.fork EXCEPT ![actualBlock + 1] = written]
            log == IF DataPageLogged(logging)
                   THEN Append(file.wal, NewPageRecord("data", actualBlock, written))
                   ELSE file.wal
            calls == file.events \o DataPageCalls(actualBlock, isNew, logging)
        IN WriteToFileLoop([fork |-> fork, activeBlockNumber |-> actualBlock, wal |-> log,
                            events |-> calls],
                           actualBlock + 1, blockCount,
                           SubSeq(data, copySize + 1, Len(data)), logging)

\* a writer that leaves a zero byte after each buffer it appends
WriteToFilePadded(file, data, logging) ==
    IF Len(data) = 0 THEN file
    ELSE WriteToFileLoop(file, file.activeBlockNumber, Len(file.fork), data \o <<0>>,
                         logging)

WriteToFile(file, data, logging) ==
    IF Len(data) = 0 THEN file
    ELSE WriteToFileLoop(file, file.activeBlockNumber, Len(file.fork), data, logging)

\* consecutive WriteToFile calls, one per buffer of the list: the file before
\* the first call and after each of the first n
RECURSIVE WrittenFiles(_, _, _, _)
WrittenFiles(file, buffers, logging, n) ==
    IF n = 0 THEN << file >>
    ELSE LET files == WrittenFiles(file, buffers, logging, n - 1)
         IN Append(files, WriteToFile(files[n], buffers[n], logging))

WriteBuffers(file, buffers, logging) ==
    WrittenFiles(file, buffers, logging, Len(buffers))[Len(buffers) + 1]

----------------------------------------------------------------------------
(* Stripe assembly *)

\* writeState->stripeBuffers and ->stripeSkipList while they are NULL
NullStripeBuffers ==
    [valid |-> FALSE, rowCount |-> 0, maxBlockCount |-> 0,
     columnBuffersArray |-> [c \in Columns |-> <<>>]]

NullStripeSkipList ==
    [valid |-> FALSE, blockCount |-> 0, maxBlockCount |-> 0,
     blockSkipNodeArray |-> [c \in Columns |-> <<>>]]

\* uint32 maxBlockCount = (stripeMaxRowCount / blockRowCount) + 1, both uint32
MaxBlockCount(stripeMaxRowCount, blockRowCount) ==
    (stripeMaxRowCount \div blockRowCount) + 1

CreateEmptyStripeBuffers(stripeMaxRowCount, blockRowCount) ==
    LET maxBlockCount == MaxBlockCount(stripeMaxRowCount, blockRowCount)
    IN [valid |-> TRUE, rowCount |-> 0, maxBlockCount |-> maxBlockCount,
        columnBuffersArray |->
            [c \in Columns |-> [b \in 0..(maxBlockCount - 1) |-> EmptyBlockBuffers]]]

CreateEmptyStripeSkipList(stripeMaxRowCount, blockRowCount) ==
    LET maxBlockCount == MaxBlockCount(stripeMaxRowCount, blockRowCount)
    IN [valid |-> TRUE, blockCount |-> 0, maxBlockCount |-> maxBlockCount,
        blockSkipNodeArray |->
            [c \in Columns |-> [b \in 0..(maxBlockCount - 1) |-> EmptySkipNode]]]

\* CreateEmptyBlockDataArray: per column an exists array (zeroed) and no value
\* buffer yet.  The array is ExistsSpan cells of memory, of which the first
\* blockRowCount are the allocation (writeState.existsCapacity).
CreateEmptyBlockDataArray ==
    [c \in Columns |-> [existsArray |-> [i \in 0..(ExistsSpan - 1) |-> FALSE],
                        valueBuffer |-> <<>>]]

DatumCopy(datum, att) ==
    IF att.attbyval THEN datum ELSE Sub(datum, 0, DatumLength(att, datum))

\* an update that also replaces the incumbent by a value comparing equal to it
UpdateBlockSkipNodeMinMaxOnTies(blockSkipNode, columnValue, att) ==
    IF ~att.hasComparison THEN blockSkipNode
    ELSE [blockSkipNode EXCEPT
            !.hasMinMax = TRUE,
            !.minimumValue =
                IF ~blockSkipNode.hasMinMax
                   \/ FunctionCall2Coll(columnValue, blockSkipNode.minimumValue) <= 0
                THEN DatumCopy(columnValue, att) ELSE @,
            !.maximumValue =
                IF ~blockSkipNode.hasMinMax
                   \/ FunctionCall2Coll(columnValue, blockSkipNode.maximumValue) >= 0
                THEN DatumCopy(columnValue, att) ELSE @]

UpdateBlockSkipNodeMinMax(blockSkipNode, columnValue, att) ==
    IF ~att.hasComparison THEN blockSkipNode
    ELSE
        LET previousMinimum == blockSkipNode.minimumValue
            previousMaximum == blockSkipNode.maximumValue
            minimumComparison == FunctionCall2Coll(columnValue, previousMinimum)
            maximumComparison == FunctionCall2Coll(columnValue, previousMaximum)
            currentMinimum ==
                IF ~blockSkipNode.hasMinMax THEN DatumCopy(columnValue, att)
                ELSE IF minimumComparison < 0 THEN DatumCopy(columnValue, att)
                ELSE previousMinimum
            currentMaximum ==
                IF ~blockSkipNode.hasMinMax THEN DatumCopy(columnValue, att)
                ELSE IF maximumComparison > 0 THEN DatumCopy(columnValue, att)
                ELSE previousMaximum
        IN [blockSkipNode EXCEPT !.hasMinMax = TRUE,
                                 !.minimumValue = currentMinimum,
                                 !.maximumValue = currentMaximum]

\* The exists arrays as SerializeBoolArray can read them: a cell inside the
\* allocation holds what write_row stored; a cell at or past existsCapacity that
\* is read (index below rowCount) lies outside the allocation and holds
\* either value.
ReadableExistsArrays(blockData, existsCapacity, rowCount) ==
    { seen \in [Columns -> [0..(ExistsSpan - 1) -> BOOLEAN]] :
        \A c \in Columns : \A i \in 0..(ExistsSpan - 1) :
            (i < existsCapacity \/ i >= rowCount) =>
                seen[c][i] = blockData[c].existsArray[i] }

\* SerializeBlockData(writeState, blockIndex, rowCount); seen are the exists
\* arrays as read.  Returns the stripe buffers and the block data array.
\* a block that records the compression asked for, whatever the codec did
RequestedCompressionType(compressed, requestedCompressionType) ==
    requestedCompressionType

\* actualCompressionType: COMPRESSION_NONE unless the codec compressed
ActualCompressionType(compressed, requestedCompressionType) ==
    IF compressed THEN COMPRESSION_PG_LZ ELSE COMPRESSION_NONE

\* a block that keeps the uncompressed values whatever the codec did
UncompressedValueBuffer(compressed, compressionBuffer, valueBuffer) == valueBuffer

\* serializedValueBuffer: the codec's scratch buffer when it compressed, the
\* block's value buffer otherwise
SerializedValueBuffer(compressed, compressionBuffer, valueBuffer) ==
    IF compressed THEN compressionBuffer ELSE valueBuffer

SerializeBlockData(buffers, blockData, compressionType, blockIndex, rowCount, seen) ==
    LET serialized(c) ==
            LET result == CompressBuffer(blockData[c].valueBuffer, compressionType)
                serializedValueBuffer ==
                    SerializedValueBuffer(result.compressed, result.output,
                                          blockData[c].valueBuffer)
                actualCompressionType ==
                    ActualCompressionType(result.compressed, compressionType)
            IN [existsBuffer |-> SerializeBoolArray(seen[c], rowCount),
                existsBufferNull |-> FALSE,
                valueBuffer |-> CopyStringInfo(serializedValueBuffer),
                valueBufferNull |-> FALSE,
                valueCompressionType |-> actualCompressionType]
    IN [stripeBuffers |->
            [buffers EXCEPT !.columnBuffersArray =
                [c \in Columns |-> [@[c] EXCEPT ![blockIndex] = serialized(c)]]],
        blockDataArray |->
            [c \in Columns |-> [blockData[c] EXCEPT !.valueBuffer = <<>>]]]

----------------------------------------------------------------------------
(* Stripe flush *)

CreateSkipListBufferArray(skipList) ==
    [c \in Columns |->
        SerializeColumnSkipList(skipList.blockSkipNodeArray[c],
                                skipList.blockCount, Att(c))]

CreateStripeFooter(skipList, skipListBufferArray) ==
    [skipListSizeArray |-> [c \in Columns |-> Len(skipListBufferArray[c])],
     existsSizeArray |->
        [c \in Columns |->
            SumTo([b \in 0..(skipList.blockCount - 1) |->
                      skipList.blockSkipNodeArray[c][b].existsLength],
                  skipList.blockCount)],
     valueSizeArray |->
        [c \in Columns |->
            SumTo([b \in 0..(skipList.blockCount - 1) |->
                      skipList.blockSkipNodeArray[c][b].valueLength],
                  skipList.blockCount)]]

\* offsets advanced before they are stored: each block's offset includes its own
\* length
UpdateSkipListOffsetsInclusive(skipList, buffers) ==
    LET blockCount == skipList.blockCount
        existsSize(c) == [b \in 0..(blockCount - 1) |->
                             Len(buffers.columnBuffersArray[c][b].existsBuffer)]
        valueSize(c) == [b \in 0..(blockCount - 1) |->
                            Len(buffers.columnBuffersArray[c][b].valueBuffer)]
    IN [skipList EXCEPT !.blockSkipNodeArray =
            [c \in Columns |->
                [b \in DOMAIN @[c] |->
                    IF b < blockCount
                    THEN [@[c][b] EXCEPT
                            !.existsBlockOffset = SumTo(existsSize(c), b + 1),
                            !.existsLength = existsSize(c)[b],
                            !.valueBlockOffset = SumTo(valueSize(c), b + 1),
                            !.valueLength = valueSize(c)[b],
                            !.valueCompressionType =
                                buffers.columnBuffersArray[c][b].valueCompressionType]
                    ELSE @[c][b]]]]

\* the "update buffer sizes and positions in stripe skip list" loops of FlushStripe
UpdateSkipListOffsets(skipList, buffers) ==
    LET blockCount == skipList.blockCount
        existsSize(c) == [b \in 0..(blockCount - 1) |->
                             Len(buffers.columnBuffersArray[c][b].existsBuffer)]
        valueSize(c) == [b \in 0..(blockCount - 1) |->
                            Len(buffers.columnBuffersArray[c][b].valueBuffer)]
    IN [skipList EXCEPT !.blockSkipNodeArray =
            [c \in Columns |->
                [b \in DOMAIN @[c] |->
                    IF b < blockCount
                    THEN [@[c][b] EXCEPT
                            !.existsBlockOffset = SumTo(existsSize(c), b),
                            !.existsLength = existsSize(c)[b],
                            !.valueBlockOffset = SumTo(valueSize(c), b),
                            !.valueLength = valueSize(c)[b],
                            !.valueCompressionType =
                                buffers.columnBuffersArray[c][b].valueCompressionType]
                    ELSE @[c][b]]]]

\* the data buffers of one column in the order FlushStripe writes them
\* a flush order that writes each block's exists buffer next to its value buffer
ColumnDataBuffersByBlock(buffers, blockCount, c) ==
    [i \in 1..(2 * blockCount) |->
        IF i % 2 = 1 THEN buffers.columnBuffersArray[c][(i - 1) \div 2].existsBuffer
        ELSE buffers.columnBuffersArray[c][(i - 1) \div 2].valueBuffer]

\* the exists buffers of column c in block order, then its value buffers
ColumnDataBuffers(buffers, blockCount, c) ==
    [b \in 1..blockCount |-> buffers.columnBuffersArray[c][b - 1].existsBuffer]
    \o [b \in 1..blockCount |-> buffers.columnBuffersArray[c][b - 1].valueBuffer]

\* a flush that serializes the block at lastBlockIndex whether or not it has rows
LastBlockSerializedAlways(lastBlockRowCount) == TRUE

\* if (lastBlockRowCount > 0): the last block was not serialized if it was not
\* full yet
LastBlockNeedsSerialization(lastBlockRowCount) == lastBlockRowCount > 0

\* FlushStripe(writeState).  file is the data fork with the writer's cursor; seen
\* the exists arrays as a SerializeBlockData of the last block reads them.
FlushStripe(ws, buffers0, skipList0, blockData0, file, seen) ==
    LET blockRowCount == ws.tableFooter.blockRowCount
        blockCount == skipList0.blockCount
        lastBlockIndex == buffers0.rowCount \div blockRowCount
        lastBlockRowCount == buffers0.rowCount % blockRowCount
        last == IF LastBlockNeedsSerialization(lastBlockRowCount)
                THEN SerializeBlockData(buffers0, blockData0, ws.compressionType,
                                        lastBlockIndex, lastBlockRowCount, seen)
                ELSE [stripeBuffers |-> buffers0, blockDataArray |-> blockData0]
        buffers == last.stripeBuffers
        skipList == UpdateSkipListOffsets(skipList0, buffers)
        skipListBufferArray == CreateSkipListBufferArray(skipList)
        stripeFooter == CreateStripeFooter(skipList, skipListBufferArray)
        stripeFooterBuffer == SerializeStripeFooter(stripeFooter)
        skipCalls == [c \in 1..natts |-> skipListBufferArray[c - 1]]
        dataCalls == Concat([c \in Columns |-> ColumnDataBuffers(buffers, blockCount, c)],
                            natts)
        calls == skipCalls \o dataCalls \o <<stripeFooterBuffer>>
        skipListLength == SumTo(stripeFooter.skipListSizeArray, natts)
        dataLength == SumTo([c \in Columns |-> stripeFooter.existsSizeArray[c]
                                               + stripeFooter.valueSizeArray[c]], natts)
    IN [blockDataArray |-> last.blockDataArray,
        stripeBuffers |-> buffers,
        stripeSkipList |-> skipList,
        calls |-> calls,
        file |-> WriteBuffers(file, calls, ws.logging),
        stripeMetadata |->
            [fileOffset |-> ws.currentFileOffset, skipListLength |-> skipListLength,
             dataLength |-> dataLength, footerLength |-> Len(stripeFooterBuffer)],
        currentFileOffset |->
            ws.currentFileOffset + skipListLength + dataLength + Len(stripeFooterBuffer)]

AppendStripeMetadata(tableFooter, stripeMetadata) ==
    [tableFooter EXCEPT !.stripeMetadataList = Append(@, stripeMetadata)]

----------------------------------------------------------------------------
(* The footer byte stream and the footer reader (CStoreReadFooter) *)

\* wholeFooter as first assembled: its four length bytes still hold 0
WholeFooterUnpatched(tableFooter) ==
    LET tableFooterBuffer == SerializeTableFooter(tableFooter)
        postscriptBuffer == SerializePostScript(Len(tableFooterBuffer))
        postscriptSize == Len(postscriptBuffer) % 256
    IN BytesLE(0, 4) \o tableFooterBuffer \o postscriptBuffer \o <<postscriptSize>>

\* uint8 postscriptSize = postscriptBuffer->len
PostscriptSizeByte(postscriptLength) == postscriptLength % 256

\* the four parts of wholeFooter, its length patched into the first
AssembleWholeFooter(tableFooterBuffer, postscriptBuffer) ==
    LET postscriptSize == PostscriptSizeByte(Len(postscriptBuffer))
        dataLength == 4 + Len(tableFooterBuffer) + Len(postscriptBuffer) + 1
    IN BytesLE(dataLength, 4) \o tableFooterBuffer \o postscriptBuffer
       \o <<postscriptSize>>

\* wholeFooter of CStoreWriteFooter after its length has been patched in
WholeFooter(tableFooter) ==
    LET tableFooterBuffer == SerializeTableFooter(tableFooter)
    IN AssembleWholeFooter(tableFooterBuffer,
                           SerializePostScript(Len(tableFooterBuffer)))

\* Assert(postscriptBuffer->len < CSTORE_POSTSCRIPT_SIZE_MAX) and what follows
\* it, for a postscript of the given bytes: one outcome per build.  A build with
\* assertions aborts the backend when the assertion fails; a build without them
\* goes on to the header swap.  No build raises an error.
PostscriptOutcomes(tableFooterBuffer, postscriptBuffer) ==
    LET proceeds == [errorRaised |-> FALSE, aborted |-> FALSE, headerSwapped |-> TRUE,
                     wholeFooter |-> AssembleWholeFooter(tableFooterBuffer,
                                                         postscriptBuffer)]
        trapped == [errorRaised |-> FALSE, aborted |-> TRUE, headerSwapped |-> FALSE,
                    wholeFooter |-> << >>]
    IN IF Len(postscriptBuffer) < CSTORE_POSTSCRIPT_SIZE_MAX
       THEN { proceeds }
       ELSE { proceeds, trapped }

EmptyTableFooter(blockRowCount) ==
    [blockRowCount |-> blockRowCount, stripeMetadataList |-> <<>>]

\* the payloads of blocks startingBlock .. startingBlock + blockCount - 1
FooterRangeStream(fork, startingBlock, blockCount) ==
    Concat([i \in 0..(blockCount - 1) |-> fork[startingBlock + i + 1].data], blockCount)

FooterRangeReadable(fork, startingBlock, blockCount) ==
    /\ startingBlock >= 1
    /\ startingBlock + blockCount <= Len(fork)
    /\ \A i \in 0..(blockCount - 1) : fork[startingBlock + i + 1].init

FooterStreamWellFormed(stream) ==
    /\ Len(stream) >= 7
    /\ FromBytesLE(SubSeq(stream, 1, 4)) = Len(stream)
    /\ LET postscriptSize == stream[Len(stream)]
       IN /\ postscriptSize = 1
          /\ LET tableFooterLength == stream[Len(stream) - 1]
             IN /\ 4 + tableFooterLength + postscriptSize + 1 = Len(stream)
                /\ (tableFooterLength - 1) % 4 = 0

ParseFooterStream(stream) == DeserializeTableFooter(SubSeq(stream, 5, Len(stream) - 2))

\* CStoreReadFooter(relation): "absent" stands for its NULL result, "error" for
\* the error it raises when the range the header names does not hold a footer
ReadFooter(fork) ==
    LET absent == [status |-> "absent", tableFooter |-> EmptyTableFooter(0)]
        failed == [status |-> "error", tableFooter |-> EmptyTableFooter(0)]
    IN IF Len(fork) = 0 THEN absent
       ELSE LET meta == DeserializeTableFooterMetadata(fork[1])
            IN IF meta.startingBlock = 0 THEN absent
               ELSE IF ~FooterRangeReadable(fork, meta.startingBlock, meta.blockCount)
               THEN failed
               ELSE LET stream == FooterRangeStream(fork, meta.startingBlock,
                                                    meta.blockCount)
                    IN IF FooterStreamWellFormed(stream)
                       THEN [status |-> "ok", tableFooter |-> ParseFooterStream(stream)]
                       ELSE failed

----------------------------------------------------------------------------
(* Crash recovery: what the two forks hold after a crash and WAL replay *)

IsImage(record, forkName, blockNumber) ==
    record.kind = "newpage" /\ record.fork = forkName /\ record.block = blockNumber

HasImage(log, forkName, blockNumber) ==
    \E i \in 1..Len(log) : IsImage(log[i], forkName, blockNumber)

\* replay applies the full-page images in log order: the last one stays
LastImage(log, forkName, blockNumber) ==
    log[CHOOSE i \in 1..Len(log) :
            /\ IsImage(log[i], forkName, blockNumber)
            /\ \A j \in (i + 1)..Len(log) : ~IsImage(log[j], forkName, blockNumber)].page

\* replay extends the fork up to the highest block it restores
LoggedLength(log, forkName, n) ==
    LET restored == { b \in 0..(n - 1) : HasImage(log, forkName, b) }
    IN IF restored = {} THEN 0
       ELSE (CHOOSE b \in restored : \A other \in restored : other <= b) + 1

\* blocks changed in the buffer pool since the checkpoint with no WAL image
UnloggedDirty(buffered, disk, log, forkName) ==
    { b \in 0..(Len(buffered) - 1) :
        /\ ~HasImage(log, forkName, b)
        /\ (b >= Len(disk) \/ buffered[b + 1] # disk[b + 1]) }

\* the fork after recovery.  The first durable records of the log reached the
\* disk and are replayed.  A block logged only after them cannot have been
\* written back (WAL before data) and a block in lost was not written back:
\* both are as the checkpoint left them, zero pages if the file was extended
\* since.
RecoveredFork(buffered, disk, log, durable, forkName, length, lost) ==
    LET replayed == SubSeq(log, 1, durable)
    IN [k \in 1..length |->
            IF HasImage(replayed, forkName, k - 1)
            THEN LastImage(replayed, forkName, k - 1)
            ELSE IF HasImage(log, forkName, k - 1) \/ (k - 1) \in lost
                 THEN IF k <= Len(disk) THEN disk[k] ELSE ZeroPage
                 ELSE buffered[k]]

----------------------------------------------------------------------------
(* The state after construction: a table with neither fork written *)

NullWriteState ==
    [tableFooter |-> EmptyTableFooter(0), compressionType |-> COMPRESSION_NONE,
     stripeMaxRowCount |-> 0, logging |-> FALSE, currentFileOffset |-> 0,
     activeBlockNumber |-> 0, existsCapacity |-> 0]

NullFooterWrite ==
    [originalBlockCount |-> 0, actualBlockCount |-> 0, startingBlock |-> 0,
     blockCount |-> 0, newStartingBlock |-> 0, currentBlockNumber |-> 0,
     dataOffset |-> 0, wholeFooter |-> <<>>]

InitHistory ==
    [sessions |-> 0,            \* begin_write calls so far
     crashes |-> 0,
     rowsWritten |-> 0,         \* write_row calls so far
     session |-> [rows |-> <<>>, stripeMaxRowCount |-> 0, firstStripe |-> 1,
                  priorFooter |-> EmptyTableFooter(0), priorStatus |-> "absent"],
     stripes |-> <<>>,          \* every stripe flushed, in flush order
     footerStripes |-> <<>>,    \* for each entry of the writer's stripe list, its index in stripes
     committedStripes |-> <<>>, \* the same for the footer of the last header swap
     committedRows |-> <<>>,    \* the rows of the sessions that reached the header swap
     committedFooter |-> EmptyTableFooter(0),
     footerRanges |-> <<>>,     \* starting block and block count of each header swap
     lastEvent |-> "none",      \* "closed" | "abandoned" | "crashed": how the last session ended
     crashedAt |-> "none",      \* pc at the last crash
     crashedFooter |-> EmptyTableFooter(0),
     allClosed |-> TRUE]        \* no session so far was abandoned or crashed

Init ==
    /\ dataFork = <<>>
    /\ footerFork = <<>>
    /\ dataForkExists = FALSE
    /\ dataDisk = <<>>
    /\ footerDisk = <<>>
    /\ wal = <<>>
    /\ pc = "idle"
    /\ writeState = NullWriteState
    /\ stripeBuffers = NullStripeBuffers
    /\ stripeSkipList = NullStripeSkipList
    /\ blockDataArray = CreateEmptyBlockDataArray
    /\ footerWrite = NullFooterWrite
    /\ pinned = {}
    /\ events = << >>
    /\ history = InitHistory

----------------------------------------------------------------------------
(* begin_write *)

\* EnsureDataForkExists(relation, logging): the WAL records it emits
EnsureDataForkExists(exists, logging) ==
    IF ~exists /\ logging
    THEN << [kind |-> "create", fork |-> "data", block |-> 0, page |-> ZeroPage] >>
    ELSE <<>>

\* a cursor that forgets the last stripe's footer: a resumed session would then
\* record offsets that overlap the stripe before them
BeginFileOffsetBeforeFooter(tableFooter) ==
    IF tableFooter.stripeMetadataList # <<>>
    THEN LET lastStripe == tableFooter.stripeMetadataList[Len(tableFooter.stripeMetadataList)]
         IN lastStripe.fileOffset + lastStripe.skipListLength + lastStripe.dataLength
    ELSE 0

\* the cursor CStoreBeginWrite derives from the footer it read
BeginFileOffset(tableFooter) ==
    IF tableFooter.stripeMetadataList # <<>>
    THEN LET lastStripe == tableFooter.stripeMetadataList[Len(tableFooter.stripeMetadataList)]
             lastStripeSize == lastStripe.skipListLength + lastStripe.dataLength
                               + lastStripe.footerLength
         IN lastStripe.fileOffset + lastStripeSize
    ELSE 0

\* a cursor block rounded up: it skips the rest of a partly filled page
CursorBlockRoundedUp(currentFileOffset) ==
    (currentFileOffset + PageDataSize - 1) \div PageDataSize

\* blockNumber = currentFileOffset / pageDataSize
CursorBlock(currentFileOffset) == currentFileOffset \div PageDataSize

\* A checkpoint precedes the session: what the buffer pool holds is durable and
\* the WAL restarts.
CStoreBeginWrite(compressionType, stripeMaxRowCount, blockRowCount, logging) ==
    /\ pc = "idle"
    /\ \E read \in { ReadFooter(footerFork) } :
        \E tableFooter \in { IF read.status = "ok" THEN read.tableFooter
                              ELSE EmptyTableFooter(blockRowCount) } :
            /\ read.status # "error"
            /\ writeState' =
                 [tableFooter |-> tableFooter, compressionType |-> compressionType,
                  stripeMaxRowCount |-> stripeMaxRowCount, logging |-> logging,
                  currentFileOffset |-> BeginFileOffset(tableFooter),
                  activeBlockNumber |-> CursorBlock(BeginFileOffset(tableFooter)),
                  existsCapacity |-> blockRowCount]
            /\ history' =
                 [history EXCEPT
                    !.sessions = @ + 1,
                    !.session = [rows |-> <<>>, stripeMaxRowCount |-> stripeMaxRowCount,
                                 firstStripe |-> Len(history.stripes) + 1,
                                 priorFooter |-> read.tableFooter,
                                 priorStatus |-> read.status],
                    !.footerStripes = IF read.status = "ok" THEN history.committedStripes
                                      ELSE <<>>]
    /\ dataDisk' = dataFork
    /\ footerDisk' = footerFork
    /\ wal' = EnsureDataForkExists(dataForkExists, logging)
    /\ dataForkExists' = TRUE
    /\ stripeBuffers' = NullStripeBuffers
    /\ stripeSkipList' = NullStripeSkipList
    /\ blockDataArray' = CreateEmptyBlockDataArray
    /\ pc' = "open"
    /\ events' = << >>
    /\ UNCHANGED <<dataFork, footerFork, footerWrite, pinned>>

----------------------------------------------------------------------------
(* write_row *)

\* the entry of history.stripes for a stripe FlushStripe has just written
FlushedStripe(ws, rows, byWriteRow, flushed) ==
    [session |-> history.sessions,
     byWriteRow |-> byWriteRow,
     stripeMaxRowCount |-> ws.stripeMaxRowCount,
     blockRowCount |-> ws.tableFooter.blockRowCount,
     existsCapacity |-> ws.existsCapacity,
     compressionType |-> ws.compressionType,
     rows |-> rows,
     blockCount |-> flushed.stripeSkipList.blockCount,
     blockSkipNodeArray |-> flushed.stripeSkipList.blockSkipNodeArray,
     columnBuffersArray |-> flushed.stripeBuffers.columnBuffersArray,
     stripeMetadata |-> flushed.stripeMetadata,
     calls |-> flushed.calls]

\* the rows of the stripe being assembled: the last rowCount rows of the session
OpenStripeRows(rows, rowCount) == SubSeq(rows, Len(rows) - rowCount + 1, Len(rows))

DataFile(ws) ==
    [fork |-> dataFork, activeBlockNumber |-> ws.activeBlockNumber, wal |-> wal,
     events |-> << >>]

\* the per-column loop of CStoreWriteRow on the block data array
StoreRow(blockData, row, blockRowIndex) ==
    [c \in Columns |->
        IF row[c].isNull
        THEN [blockData[c] EXCEPT !.existsArray[blockRowIndex] = FALSE]
        ELSE [blockData[c] EXCEPT
                !.existsArray[blockRowIndex] = TRUE,
                !.valueBuffer = SerializeSingleDatum(@, row[c].value, Att(c))]]

\* the per-column loop of CStoreWriteRow on the skip list, and blockCount
CountRow(skipList, row, blockIndex) ==
    [skipList EXCEPT
        !.blockSkipNodeArray =
            [c \in Columns |->
                [@[c] EXCEPT ![blockIndex] =
                    LET updated == IF row[c].isNull THEN @
                                   ELSE UpdateBlockSkipNodeMinMax(@, row[c].value, Att(c))
                    IN [updated EXCEPT !.rowCount = @ + 1]]],
        !.blockCount = blockIndex + 1]

\* a test that lets a stripe take one row more than its maximum
StripeIsOverfull(rowCount, stripeMaxRowCount) == rowCount > stripeMaxRowCount

\* rowCount >= stripeMaxRowCount
StripeIsFull(rowCount, stripeMaxRowCount) == rowCount >= stripeMaxRowCount

\* CStoreWriteRow up to the serialization of the block: the stripe buffers and
\* skip list created if there were none, the row stored and counted.
\* readCount is the number of exists flags the rest of the call reads.
StoredRow(ws, buffers, skipList, blockData, row) ==
    LET blockRowCount == ws.tableFooter.blockRowCount
        created == ~buffers.valid
        buffers0 == IF created
                    THEN CreateEmptyStripeBuffers(ws.stripeMaxRowCount, blockRowCount)
                    ELSE buffers
        skipList0 == IF created
                     THEN CreateEmptyStripeSkipList(ws.stripeMaxRowCount, blockRowCount)
                     ELSE skipList
        blockData0 == IF created
                      THEN [c \in Columns |-> [blockData[c] EXCEPT !.valueBuffer = <<>>]]
                      ELSE blockData
        blockIndex == buffers0.rowCount \div blockRowCount
        blockRowIndex == buffers0.rowCount % blockRowCount
        blockFull == blockRowIndex = blockRowCount - 1
        rowCount == buffers0.rowCount + 1
        full == StripeIsFull(rowCount, ws.stripeMaxRowCount)
    IN [stripeBuffers |-> buffers0,
        stripeSkipList |-> CountRow(skipList0, row, blockIndex),
        blockDataArray |-> StoreRow(blockData0, row, blockRowIndex),
        blockIndex |-> blockIndex,
        blockFull |-> blockFull,
        rowCount |-> rowCount,
        full |-> full,
        readCount |-> IF blockFull THEN blockRowCount
                      ELSE IF full THEN rowCount % blockRowCount ELSE 0]

\* the rest of CStoreWriteRow: the block serialized if it is full, the stripe
\* flushed if it is full
WrittenRow(ws, stored, file, seen) ==
    LET block == IF stored.blockFull
                 THEN SerializeBlockData(stored.stripeBuffers, stored.blockDataArray,
                                         ws.compressionType, stored.blockIndex,
                                         ws.tableFooter.blockRowCount, seen)
                 ELSE [stripeBuffers |-> stored.stripeBuffers,
                       blockDataArray |-> stored.blockDataArray]
        buffers1 == [block.stripeBuffers EXCEPT !.rowCount = stored.rowCount]
        flushed == FlushStripe(ws, buffers1, stored.stripeSkipList, block.blockDataArray,
                               file, seen)
    IN IF stored.full
       THEN [full |-> TRUE,
             file |-> flushed.file,
             writeState |->
                [ws EXCEPT
                    !.tableFooter = AppendStripeMetadata(@, flushed.stripeMetadata),
                    !.currentFileOffset = flushed.currentFileOffset,
                    !.activeBlockNumber = flushed.file.activeBlockNumber],
             stripeBuffers |-> NullStripeBuffers,
             stripeSkipList |-> NullStripeSkipList,
             blockDataArray |-> flushed.blockDataArray,
             flushed |-> << flushed >>]
       ELSE [full |-> FALSE,
             file |-> file,
             writeState |-> ws,
             stripeBuffers |-> buffers1,
             stripeSkipList |-> stored.stripeSkipList,
             blockDataArray |-> block.blockDataArray,
             flushed |-> << >>]

CStoreWriteRow(row) ==
    /\ pc = "open"
    /\ \E stored \in { StoredRow(writeState, stripeBuffers, stripeSkipList,
                                  blockDataArray, row) } :
        \E seen \in ReadableExistsArrays(stored.blockDataArray, writeState.existsCapacity,
                                          stored.readCount) :
        \E written \in { WrittenRow(writeState, stored, DataFile(writeState), seen) } :
            /\ dataFork' = written.file.fork
            /\ wal' = written.file.wal
            /\ events' = written.file.events
            /\ writeState' = written.writeState
            /\ stripeBuffers' = written.stripeBuffers
            /\ stripeSkipList' = written.stripeSkipList
            /\ blockDataArray' = written.blockDataArray
            /\ history' =
                 [history EXCEPT
                    !.rowsWritten = @ + 1,
                    !.session.rows = Append(@, row),
                    !.stripes =
                        IF written.full
                        THEN Append(@, FlushedStripe(writeState,
                                        OpenStripeRows(Append(history.session.rows, row),
                                                       stored.rowCount),
                                        TRUE, written.flushed[1]))
                        ELSE @,
                    !.footerStripes =
                        IF written.full THEN Append(@, Len(history.stripes) + 1) ELSE @]
    /\ UNCHANGED <<footerFork, dataForkExists, dataDisk, footerDisk, pc, footerWrite,
                   pinned>>

----------------------------------------------------------------------------
(* end_write: CStoreEndWrite up to the page loop of CStoreWriteFooter, one   *)
(* step per footer page, and the header page update                         *)

\* a page count that leaves out a last, partly filled page
FooterBlockCountWholePages(dataLength) == dataLength \div PageDataSize

\* (dataLength - 1) / blockDataSize + 1
FooterBlockCount(dataLength) == ((dataLength - 1) \div PageDataSize) + 1

\* a placement that also goes back to block 1 when the new footer has as many
\* pages as there are blocks before the current one
NewStartingBlockTight(originalBlockCount, startingBlock, blockCount, actualBlockCount) ==
    IF originalBlockCount = 0 THEN 1
    ELSE IF startingBlock = 0 THEN 1
    ELSE IF actualBlockCount <= startingBlock THEN 1
    ELSE startingBlock + blockCount

\* a placement whose append case starts on the last block of the current range
NewStartingBlockInside(originalBlockCount, startingBlock, blockCount, actualBlockCount) ==
    IF originalBlockCount = 0 THEN 1
    ELSE IF startingBlock = 0 THEN 1
    ELSE IF actualBlockCount < startingBlock THEN 1
    ELSE startingBlock + blockCount - 1

\* a placement that never goes back to block 1
NewStartingBlockNoReclaim(originalBlockCount, startingBlock, blockCount, actualBlockCount) ==
    IF originalBlockCount = 0 THEN 1
    ELSE IF startingBlock = 0 THEN 1
    ELSE startingBlock + blockCount

\* where CStoreWriteFooter puts the new footer
NewStartingBlock(originalBlockCount, startingBlock, blockCount, actualBlockCount) ==
    IF originalBlockCount = 0 THEN 1
    ELSE IF startingBlock = 0 THEN 1
    ELSE IF actualBlockCount < startingBlock THEN 1
    ELSE startingBlock + blockCount

\* an end_write that flushes whether or not a stripe is open
HasOpenStripeAlways(buffers) == TRUE

\* if (stripeBuffers != NULL)
HasOpenStripe(buffers) == buffers.valid

\* the header buffer CStoreWriteFooter reads and locks before its page loop
HeaderBuffer == [fork |-> "footer", block |-> 0]

HeaderPinCalls ==
    << BufferCall("ReadBufferExtended", "footer", 0),
       BufferCall("LockBuffer", "footer", 0) >>

\* CStoreEndWrite and CStoreWriteFooter up to its page loop: the open stripe, if
\* any, flushed and listed; the footer stream built; the header page read
EndWriteStart(ws, buffers, skipList, blockData, file, footer, seen) ==
    LET open == HasOpenStripe(buffers)
        flushed == FlushStripe(ws, buffers, skipList, blockData, file, seen)
        tableFooter == IF open
                       THEN AppendStripeMetadata(ws.tableFooter, flushed.stripeMetadata)
                       ELSE ws.tableFooter
        originalBlockCount == Len(footer)
        wholeFooter == WholeFooter(tableFooter)
        actualBlockCount == FooterBlockCount(Len(wholeFooter))
        meta == IF originalBlockCount > 0
                THEN DeserializeTableFooterMetadata(footer[1])
                ELSE [startingBlock |-> 0, blockCount |-> 0]
    IN [open |-> open,
        flushed |-> IF open THEN << flushed >> ELSE << >>,
        file |-> IF open THEN flushed.file ELSE file,
        writeState |->
            IF open
            THEN [ws EXCEPT !.tableFooter = tableFooter,
                            !.currentFileOffset = flushed.currentFileOffset,
                            !.activeBlockNumber = flushed.file.activeBlockNumber]
            ELSE ws,
        blockDataArray |-> IF open THEN flushed.blockDataArray ELSE blockData,
        \* the header page is read, or allocated with P_NEW, pinned and locked
        footerFork |-> IF originalBlockCount = 0 THEN <<ZeroPage>> ELSE footer,
        footerWrite |->
            [originalBlockCount |-> originalBlockCount,
             actualBlockCount |-> actualBlockCount,
             startingBlock |-> meta.startingBlock,
             blockCount |-> meta.blockCount,
             newStartingBlock |->
                NewStartingBlock(originalBlockCount, meta.startingBlock,
                                 meta.blockCount, actualBlockCount),
             currentBlockNumber |-> 0,
             dataOffset |-> 0,
             wholeFooter |-> wholeFooter]]

CStoreEndWrite ==
    /\ pc = "open"
    /\ \E seen \in ReadableExistsArrays(blockDataArray, writeState.existsCapacity,
            IF stripeBuffers.valid
            THEN stripeBuffers.rowCount % writeState.tableFooter.blockRowCount
            ELSE 0) :
        \E started \in { EndWriteStart(writeState, stripeBuffers, stripeSkipList,
                                        blockDataArray, DataFile(writeState),
                                        footerFork, seen) } :
            /\ dataFork' = started.file.fork
            /\ wal' = started.file.wal
            /\ events' = started.file.events \o HeaderPinCalls
            /\ writeState' = started.writeState
            /\ blockDataArray' = started.blockDataArray
            /\ footerFork' = started.footerFork
            /\ footerWrite' = started.footerWrite
            /\ history' =
                 IF started.open
                 THEN [history EXCEPT
                        !.stripes = Append(@, FlushedStripe(writeState,
                                        OpenStripeRows(history.session.rows,
                                                       stripeBuffers.rowCount),
                                        FALSE, started.flushed[1])),
                        !.footerStripes = Append(@, Len(history.stripes) + 1)]
                 ELSE history
    /\ stripeBuffers' = NullStripeBuffers
    /\ stripeSkipList' = NullStripeSkipList
    /\ pinned' = pinned \cup {HeaderBuffer}
    /\ pc' = "footer"
    /\ UNCHANGED <<dataForkExists, dataDisk, footerDisk>>

\* whether CStoreWriteFooter logs a footer payload page
FooterPageLogged(loggingEnabled) == loggingEnabled

\* the calls of one iteration of the page loop of CStoreWriteFooter
FooterPageCalls(blockNumber, loggingEnabled) ==
    << BufferCall("ReadBufferExtended", "footer", blockNumber),
       BufferCall("LockBuffer", "footer", blockNumber),
       BufferCall("START_CRIT_SECTION", "footer", blockNumber),
       BufferCall("PageInit", "footer", blockNumber),
       BufferCall("memcpy", "footer", blockNumber),
       BufferCall("MarkBufferDirty", "footer", blockNumber) >>
    \o (IF FooterPageLogged(loggingEnabled)
        THEN << BufferCall("LOG_NEWPAGE_BUFFER", "footer", blockNumber) >> ELSE << >>)
    \o << BufferCall("END_CRIT_SECTION", "footer", blockNumber),
          BufferCall("UnlockReleaseBuffer", "footer", blockNumber) >>

\* a header update logged only when the session logs its pages
HeaderPageLoggedIfEnabled(loggingEnabled) == loggingEnabled

\* whether CStoreWriteFooter logs the header page: "regardless of logging setting"
HeaderPageLogged(loggingEnabled) == TRUE

\* the calls of the header page update of CStoreWriteFooter
HeaderUpdateCalls(loggingEnabled) ==
    << BufferCall("START_CRIT_SECTION", "footer", 0),
       BufferCall("PageInit", "footer", 0),
       BufferCall("memcpy", "footer", 0),
       BufferCall("MarkBufferDirty", "footer", 0) >>
    \o (IF HeaderPageLogged(loggingEnabled)
        THEN << BufferCall("LOG_NEWPAGE_BUFFER", "footer", 0) >> ELSE << >>)
    \o << BufferCall("END_CRIT_SECTION", "footer", 0),
          BufferCall("UnlockReleaseBuffer", "footer", 0) >>

\* one iteration of the page loop of CStoreWriteFooter
CStoreWriteFooterPage ==
    /\ pc = "footer"
    /\ footerWrite.currentBlockNumber < footerWrite.actualBlockCount
    /\ LET fw == footerWrite
           dataLength == Len(fw.wholeFooter)
           blockNumber == fw.currentBlockNumber + fw.newStartingBlock
           isNew == blockNumber >= fw.originalBlockCount
           actualBlockNumber == IF isNew THEN Len(footerFork) ELSE blockNumber
           copySize == IF dataLength - fw.dataOffset <= PageDataSize
                       THEN dataLength - fw.dataOffset
                       ELSE PageDataSize
           page == [init |-> TRUE,
                    data |-> SubSeq(fw.wholeFooter, fw.dataOffset + 1,
                                    fw.dataOffset + copySize)]
       IN /\ footerFork' = IF isNew THEN Append(footerFork, page)
                           ELSE [footerFork EXCEPT ![actualBlockNumber + 1] = page]
          /\ wal' = IF FooterPageLogged(writeState.logging)
                    THEN Append(wal, NewPageRecord("footer", actualBlockNumber, page))
                    ELSE wal
          /\ events' = FooterPageCalls(actualBlockNumber, writeState.logging)
          /\ footerWrite' = [fw EXCEPT !.currentBlockNumber = @ + 1,
                                       !.dataOffset = @ + copySize]
    /\ UNCHANGED <<dataFork, dataForkExists, dataDisk, footerDisk, pc, writeState,
                   stripeBuffers, stripeSkipList, blockDataArray, pinned, history>>

\* "all table footer is written, update the header page"
CStoreWriteFooterHeader ==
    /\ pc = "footer"
    /\ footerWrite.currentBlockNumber >= footerWrite.actualBlockCount
    /\ LET tableFooterMetadata ==
               SerializeTableFooterMetadata(footerWrite.newStartingBlock,
                                            footerWrite.actualBlockCount)
           headerPage == [init |-> TRUE, data |-> tableFooterMetadata]
       IN /\ footerFork' = [footerFork EXCEPT ![1] = headerPage]
          /\ wal' = IF HeaderPageLogged(writeState.logging)
                    THEN Append(wal, NewPageRecord("footer", 0, headerPage))
                    ELSE wal
    /\ events' = HeaderUpdateCalls(writeState.logging)
    /\ pinned' = pinned \ {HeaderBuffer}
    /\ pc' = "swapped"
    /\ history' =
         [history EXCEPT
            !.committedStripes = history.footerStripes,
            !.committedRows = (IF history.session.priorStatus = "ok" THEN @ ELSE <<>>)
                              \o history.session.rows,
            !.committedFooter = writeState.tableFooter,
            !.footerRanges = Append(@, [startingBlock |-> footerWrite.newStartingBlock,
                                        blockCount |-> footerWrite.actualBlockCount])]
    /\ UNCHANGED <<dataFork, dataForkExists, dataDisk, footerDisk, writeState,
                   stripeBuffers, stripeSkipList, blockDataArray, footerWrite>>

\* the header buffer is released and CStoreEndWrite frees the write state
CStoreEndWriteReturn ==
    /\ pc = "swapped"
    /\ pc' = "idle"
    /\ writeState' = NullWriteState
    /\ blockDataArray' = CreateEmptyBlockDataArray
    /\ footerWrite' = NullFooterWrite
    /\ history' = [history EXCEPT !.lastEvent = "closed"]
    /\ events' = << >>
    /\ UNCHANGED <<dataFork, footerFork, dataForkExists, dataDisk, footerDisk, wal,
                   stripeBuffers, stripeSkipList, pinned>>

----------------------------------------------------------------------------
(* The host: a session given up, and a crash *)

\* the caller stops using the writer (its transaction aborts) without the header
\* page update having happened; the pages written so far stay as they are
Abandon ==
    /\ pc \in {"open", "footer"}
    /\ pc' = "idle"
    /\ writeState' = NullWriteState
    /\ stripeBuffers' = NullStripeBuffers
    /\ stripeSkipList' = NullStripeSkipList
    /\ blockDataArray' = CreateEmptyBlockDataArray
    /\ footerWrite' = NullFooterWrite
    /\ history' = [history EXCEPT !.lastEvent = "abandoned", !.allClosed = FALSE]
    /\ pinned' = {}
    /\ events' = << >>
    /\ UNCHANGED <<dataFork, footerFork, dataForkExists, dataDisk, footerDisk, wal>>

\* a crash inside a session, followed by WAL replay
Crash ==
    /\ pc \in {"open", "footer", "swapped"}
    /\ \E durable \in 0..Len(wal) :
        \E dataLength \in Max(Len(dataDisk),
                              LoggedLength(SubSeq(wal, 1, durable), "data", Len(dataFork)))
                          ..Len(dataFork),
           footerLength \in Max(Len(footerDisk),
                                LoggedLength(SubSeq(wal, 1, durable), "footer",
                                             Len(footerFork)))
                            ..Len(footerFork) :
        \E dataLost \in SUBSET { b \in UnloggedDirty(dataFork, dataDisk, wal, "data") :
                                    b < dataLength },
           footerLost \in SUBSET { b \in UnloggedDirty(footerFork, footerDisk, wal, "footer") :
                                      b < footerLength } :
            /\ dataFork' = RecoveredFork(dataFork, dataDisk, wal, durable, "data",
                                         dataLength, dataLost)
            /\ footerFork' = RecoveredFork(footerFork, footerDisk, wal, durable, "footer",
                                           footerLength, footerLost)
    /\ dataDisk' = dataFork'
    /\ footerDisk' = footerFork'
    /\ wal' = <<>>
    /\ pinned' = {}
    /\ events' = << >>
    /\ pc' = "idle"
    /\ writeState' = NullWriteState
    /\ stripeBuffers' = NullStripeBuffers
    /\ stripeSkipList' = NullStripeSkipList
    /\ blockDataArray' = CreateEmptyBlockDataArray
    /\ footerWrite' = NullFooterWrite
    /\ history' = [history EXCEPT !.crashes = @ + 1,
                                  !.lastEvent = "crashed",
                                  !.crashedAt = pc,
                                  !.crashedFooter = writeState.tableFooter,
                                  !.allClosed = FALSE]
    /\ UNCHANGED dataForkExists

----------------------------------------------------------------------------
(* The caller *)

\* the options of a table whose pages are WAL-logged
Sessions ==
    /\ history.sessions < MaxSessions
    /\ \E compressionType \in CompressionTypes, shape \in StripeShapes :
            CStoreBeginWrite(compressionType, shape.stripeMaxRowCount,
                             shape.blockRowCount, TRUE)

Rows ==
    /\ history.rowsWritten < MaxRows
    /\ \E row \in RowInputs : CStoreWriteRow(row)

\* sessions of callers that close or give up
Next ==
    \/ Sessions
    \/ Rows
    \/ CStoreEndWrite
    \/ CStoreWriteFooterPage
    \/ CStoreWriteFooterHeader
    \/ CStoreEndWriteReturn
    \/ Abandon

Spec == Init /\ [][Next]_vars

\* sessions of one stripe shape, logged or not, of which one may crash
CrashSessions ==
    /\ history.sessions < MaxCrashSessions
    /\ \E logging \in BOOLEAN :
            CStoreBeginWrite(COMPRESSION_NONE, CrashShape.stripeMaxRowCount,
                             CrashShape.blockRowCount, logging)

CrashRows ==
    /\ history.rowsWritten < MaxCrashRows
    /\ \E row \in CrashRowInputs : CStoreWriteRow(row)

CrashNext ==
    \/ CrashSessions
    \/ CrashRows
    \/ CStoreEndWrite
    \/ CStoreWriteFooterPage
    \/ CStoreWriteFooterHeader
    \/ CStoreEndWriteReturn
    \/ history.crashes < MaxCrashes /\ Crash

CrashSpec == Init /\ [][CrashNext]_vars

----------------------------------------------------------------------------
(* Reading the forks back: what the properties compare the writer against *)

CeilDiv(a, b) == (a + b - 1) \div b

\* the data fork's logical byte stream: the page payloads in block order
DataStream(fork) == Concat([b \in 0..(Len(fork) - 1) |-> fork[b + 1].data], Len(fork))

StripeSize(m) == m.skipListLength + m.dataLength + m.footerLength

\* the three regions of a stripe, from the skip list and the buffers FlushStripe
\* left behind (stripe is an entry of history.stripes)
StripeSkipRegion(stripe) ==
    Concat([c \in Columns |->
               SerializeColumnSkipList(stripe.blockSkipNodeArray[c], stripe.blockCount,
                                       Att(c))], natts)

StripeDataRegion(stripe) ==
    Concat([c \in Columns |->
               Concat([b \in 0..(stripe.blockCount - 1) |->
                          stripe.columnBuffersArray[c][b].existsBuffer], stripe.blockCount)
               \o Concat([b \in 0..(stripe.blockCount - 1) |->
                             stripe.columnBuffersArray[c][b].valueBuffer],
                         stripe.blockCount)], natts)

StripeSkipListBuffers(stripe) ==
    CreateSkipListBufferArray([blockCount |-> stripe.blockCount,
                               blockSkipNodeArray |-> stripe.blockSkipNodeArray])

\* the stripe lies at its recorded offset of the stream, region after region
StripeInPlace(stream, m, stripe) ==
    /\ m.fileOffset + StripeSize(m) <= Len(stream)
    /\ Sub(stream, m.fileOffset, m.skipListLength) = StripeSkipRegion(stripe)
    /\ Sub(stream, m.fileOffset + m.skipListLength, m.dataLength)
       = StripeDataRegion(stripe)
    /\ Sub(stream, m.fileOffset + m.skipListLength + m.dataLength, m.footerLength)
       = SerializeStripeFooter(
            CreateStripeFooter([blockCount |-> stripe.blockCount,
                                blockSkipNodeArray |-> stripe.blockSkipNodeArray],
                               StripeSkipListBuffers(stripe)))

\* the footer in force: the writer's inside a session, the committed one outside
CurrentFooter ==
    IF pc = "idle" THEN ReadFooter(footerFork).tableFooter ELSE writeState.tableFooter

\* for each entry of the footer in force, its index in history.stripes
CurrentFooterStripes ==
    IF pc = "idle" THEN history.committedStripes ELSE history.footerStripes

FooterStripesInPlace ==
    /\ Len(CurrentFooter.stripeMetadataList) = Len(CurrentFooterStripes)
    /\ \A i \in 1..Len(CurrentFooterStripes) :
         /\ CurrentFooter.stripeMetadataList[i]
            = history.stripes[CurrentFooterStripes[i]].stripeMetadata
         /\ StripeInPlace(DataStream(dataFork), CurrentFooter.stripeMetadataList[i],
                          history.stripes[CurrentFooterStripes[i]])

----------------------------------------------------------------------------
(* The reference decoder: the reader's side of the stripe format            *)
(* (cstore_reader.c), total on any byte stream                              *)

\* the skip nodes serialized in buffer, in order
RECURSIVE DeserializeColumnSkipList(_, _)
DeserializeColumnSkipList(buffer, att) ==
    IF Len(buffer) < 7 THEN <<>>
    ELSE LET hasMinMax == buffer[7] = 1
             minimumSize ==
                 AlignNominal(DatumLength(att, Sub(buffer, 7, 1)), att.attalign)
             maximumSize ==
                 AlignNominal(DatumLength(att, Sub(buffer, 7 + minimumSize, 1)),
                              att.attalign)
             nodeSize == IF hasMinMax THEN 7 + minimumSize + maximumSize ELSE 7
         IN << [rowCount |-> buffer[1],
                existsBlockOffset |-> buffer[2], existsLength |-> buffer[3],
                valueBlockOffset |-> buffer[4], valueLength |-> buffer[5],
                valueCompressionType |-> buffer[6], hasMinMax |-> hasMinMax] >>
            \o DeserializeColumnSkipList(Sub(buffer, nodeSize, Len(buffer) - nodeSize),
                                         att)

DeserializeStripeFooter(buffer) ==
    [skipListSizeArray |-> [c \in Columns |-> Sub(buffer, 3 * c, 1)[1]],
     existsSizeArray |-> [c \in Columns |-> Sub(buffer, 3 * c + 1, 1)[1]],
     valueSizeArray |-> [c \in Columns |-> Sub(buffer, 3 * c + 2, 1)[1]]]

\* bit (i % 8) of byte (i / 8), for the first boolArrayLength positions
DeserializeBoolArray(buffer, boolArrayLength) ==
    [i \in 0..(boolArrayLength - 1) |->
        (Sub(buffer, i \div 8, 1)[1] \div Pow(2, i % 8)) % 2 = 1]

\* the first datumCount datums of a value buffer
RECURSIVE DeserializeDatumArray(_, _, _)
DeserializeDatumArray(buffer, att, datumCount) ==
    IF datumCount = 0 THEN <<>>
    ELSE LET datumLength == DatumLength(att, Sub(buffer, 0, 1))
             datumLengthAligned == AlignNominal(datumLength, att.attalign)
             datum == IF att.attbyval THEN FromBytesLE(Sub(buffer, 0, datumLength))
                      ELSE Sub(buffer, 0, datumLength)
         IN <<datum>>
            \o DeserializeDatumArray(
                   Sub(buffer, datumLengthAligned, Len(buffer) - datumLengthAligned),
                   att, datumCount - 1)

\* the cells of one column block, from its exists and value buffers
DeserializeBlockData(columnIndex, node, existsBuffer, valueBuffer) ==
    LET exists == DeserializeBoolArray(existsBuffer, node.rowCount)
        present(i) == Cardinality({ j \in 0..i : exists[j] })
        datums == DeserializeDatumArray(
                      DecompressBuffer(valueBuffer, node.valueCompressionType),
                      Att(columnIndex), present(node.rowCount - 1))
    IN [i \in 1..node.rowCount |->
           IF exists[i - 1] THEN [value |-> datums[present(i - 1)], isNull |-> FALSE]
           ELSE [value |-> NullDatum(columnIndex), isNull |-> TRUE]]

\* the cells of one column of a stripe, block after block
LoadColumn(stream, m, stripeFooter, columnIndex) ==
    LET skipListOffset ==
            m.fileOffset + SumTo(stripeFooter.skipListSizeArray, columnIndex)
        skipList ==
            DeserializeColumnSkipList(
                Sub(stream, skipListOffset, stripeFooter.skipListSizeArray[columnIndex]),
                Att(columnIndex))
        existsOffset ==
            m.fileOffset + m.skipListLength
            + SumTo(stripeFooter.existsSizeArray, columnIndex)
            + SumTo(stripeFooter.valueSizeArray, columnIndex)
        valueOffset == existsOffset + stripeFooter.existsSizeArray[columnIndex]
    IN Concat([b \in 0..(Len(skipList) - 1) |->
                  DeserializeBlockData(
                      columnIndex, skipList[b + 1],
                      Sub(stream, existsOffset + skipList[b + 1].existsBlockOffset,
                          skipList[b + 1].existsLength),
                      Sub(stream, valueOffset + skipList[b + 1].valueBlockOffset,
                          skipList[b + 1].valueLength))], Len(skipList))

\* the rows of one stripe
LoadStripe(stream, m) ==
    LET stripeFooter ==
            DeserializeStripeFooter(
                Sub(stream, m.fileOffset + m.skipListLength + m.dataLength,
                    m.footerLength))
        columns == [c \in Columns |-> LoadColumn(stream, m, stripeFooter, c)]
    IN [r \in 1..Len(columns[0]) |->
           [c \in Columns |->
               IF r <= Len(columns[c]) THEN columns[c][r]
               ELSE [value |-> NullDatum(c), isNull |-> TRUE]]]

\* the rows of the stripes a footer lists, in footer order
LoadTable(stream, tableFooter) ==
    Concat([n \in 0..(Len(tableFooter.stripeMetadataList) - 1) |->
               LoadStripe(stream, tableFooter.stripeMetadataList[n + 1])],
           Len(tableFooter.stripeMetadataList))

StripeOffsetsContiguous(list) ==
    \A n \in 1..(Len(list) - 1) :
        /\ list[n].fileOffset < list[n + 1].fileOffset
        /\ list[n + 1].fileOffset = list[n].fileOffset + list[n].skipListLength
                                    + list[n].dataLength + list[n].footerLength

----------------------------------------------------------------------------
(* Properties *)

\* C1: in the writer's footer and in the committed footer the file offsets of
\* the stripes increase strictly, and each stripe starts where the one before it
\* ends (file_offset + skip_list_length + data_length + footer_length), also in
\* a session resumed over an existing footer.
C1_OffsetsContiguous ==
    /\ StripeOffsetsContiguous(writeState.tableFooter.stripeMetadataList)
    /\ ReadFooter(footerFork).status = "ok"
       => StripeOffsetsContiguous(ReadFooter(footerFork).tableFooter.stripeMetadataList)

\* a resumed session has closed and the committed footer lists a stripe of the
\* first session followed by one of the second
C1_Witness ==
    /\ pc = "idle"
    /\ history.lastEvent = "closed"
    /\ ReadFooter(footerFork).status = "ok"
    /\ \E i \in 1..(Len(history.committedStripes) - 1) :
         /\ history.stripes[history.committedStripes[i]].session = 1
         /\ history.stripes[history.committedStripes[i + 1]].session = 2

\* C6: when every session so far was completed by end_write, each stripe the
\* footer lists occupies exactly the bytes from its file_offset on of the data
\* fork's byte stream: its skip lists, then its data buffers, then its stripe
\* footer, with nothing between stripes or at page boundaries.
C6_StripesInPlace == history.allClosed => FooterStripesInPlace

\* two completed sessions, the footer lists their stripes, and the second
\* stripe starts inside a page
C6_Witness ==
    /\ pc = "idle"
    /\ history.allClosed
    /\ history.sessions = 2
    /\ Len(history.committedStripes) >= 2
    /\ ReadFooter(footerFork).tableFooter.stripeMetadataList[2].fileOffset % PageDataSize # 0

\* C7: after a session was given up with stripe bytes on the data fork, the
\* stripes of the footer a later session commits lie at their recorded offsets.
C7_OrphansHarmless ==
    (pc = "idle" /\ history.lastEvent = "closed" /\ ~history.allClosed)
        => FooterStripesInPlace

\* C2: after sessions each closed by end_write, decoding the stripes of the
\* committed footer in footer order with the reference decoder gives exactly the
\* rows submitted, in submission order and with the same null pattern.
C2_RoundTrip ==
    (pc = "idle" /\ history.lastEvent = "closed" /\ history.allClosed)
        => /\ ReadFooter(footerFork).status = "ok"
           /\ LoadTable(DataStream(dataFork), ReadFooter(footerFork).tableFooter)
              = history.committedRows

\* the rows of block blockIndex of a flushed stripe
BlockRows(stripe, blockIndex) ==
    SubSeq(stripe.rows, blockIndex * stripe.blockRowCount + 1,
           Min((blockIndex + 1) * stripe.blockRowCount, Len(stripe.rows)))

\* the positions of the non-null cells of a column in a block's rows
NonNullRows(rows, columnIndex) == { i \in 1..Len(rows) : ~rows[i][columnIndex].isNull }

\* the earliest non-null cell that no other non-null cell of the block beats
\* (sign = -1: none is smaller; sign = 1: none is greater)
EarliestExtreme(rows, columnIndex, sign) ==
    LET present == NonNullRows(rows, columnIndex)
        value(i) == rows[i][columnIndex].value
        extreme(i) == \A j \in present : FunctionCall2Coll(value(j), value(i)) * sign <= 0
    IN value(CHOOSE i \in present :
                 extreme(i) /\ \A j \in present : j < i => ~extreme(j))

\* C8: in every block of every flushed stripe, has_min_max holds exactly when
\* the column has a comparison function and the block has a non-null value; then
\* the minimum and the maximum are a least and a greatest of the non-null values
\* of that block alone, the earlier one of values that compare equal. A column
\* without comparison function gets no minimum and maximum.
C8_MinMax ==
    \A k \in 1..Len(history.stripes) : \A c \in Columns :
        \A b \in 0..(history.stripes[k].blockCount - 1) :
            LET node == history.stripes[k].blockSkipNodeArray[c][b]
                rows == BlockRows(history.stripes[k], b)
            IN /\ node.hasMinMax
                  <=> (Att(c).hasComparison /\ NonNullRows(rows, c) # {})
               /\ node.hasMinMax
                  => /\ node.minimumValue = EarliestExtreme(rows, c, -1)
                     /\ node.maximumValue = EarliestExtreme(rows, c, 1)

\* a second stripe whose last block holds two different values that compare
\* equal, both below the value of an earlier stripe, next to a non-null cell of
\* the column without comparison function
C8_Witness ==
    \E k \in 2..Len(history.stripes) :
        LET stripe == history.stripes[k]
            rows == BlockRows(stripe, stripe.blockCount - 1)
        IN /\ stripe.blockCount >= 1
           /\ Len(rows) = 2
           /\ NonNullRows(rows, 0) = {1, 2}
           /\ rows[1][0].value # rows[2][0].value
           /\ FunctionCall2Coll(rows[1][0].value, rows[2][0].value) = 0
           /\ ~rows[1][1].isNull
           /\ \E i \in 1..Len(history.stripes[1].rows) :
                /\ ~history.stripes[1].rows[i][0].isNull
                /\ FunctionCall2Coll(history.stripes[1].rows[i][0].value,
                                     rows[1][0].value) > 0

\* bit (i % 8) of byte (i / 8) of an exists buffer
ExistsBit(buffer, i) == (buffer[(i \div 8) + 1] \div Pow(2, i % 8)) % 2 = 1

\* C9: in every block of every flushed stripe the exists buffer has
\* ceil(row_count / 8) bytes, bit i is set exactly when row i of the block is
\* non-null in the column, and the bits from row_count on are clear.
C9_ExistsBitmap ==
    \A k \in 1..Len(history.stripes) : \A c \in Columns :
        \A b \in 0..(history.stripes[k].blockCount - 1) :
            LET rows == BlockRows(history.stripes[k], b)
                buffer == history.stripes[k].columnBuffersArray[c][b].existsBuffer
            IN /\ Len(buffer) = CeilDiv(Len(rows), 8)
               /\ \A i \in 0..(8 * Len(buffer) - 1) :
                    ExistsBit(buffer, i) <=> (i < Len(rows) /\ ~rows[i + 1][c].isNull)

\* the stripes the current session has flushed
SessionStripes ==
    { k \in 1..Len(history.stripes) : history.stripes[k].session = history.sessions }

\* C10: a stripe flushed by write_row holds exactly S rows, the one flushed by
\* end_write between 1 and S-1, none is empty; a stripe of r rows has ceil(r/R)
\* blocks of R rows each, but for the last which holds the rest; and a session
\* that closes after n rows has appended ceil(n/S) stripes to the footer.
C10_StripeShape ==
    /\ \A k \in 1..Len(history.stripes) :
         LET stripe == history.stripes[k]
             r == Len(stripe.rows)
         IN /\ r >= 1
            /\ stripe.byWriteRow => r = stripe.stripeMaxRowCount
            /\ ~stripe.byWriteRow => r <= stripe.stripeMaxRowCount - 1
            /\ stripe.blockCount = CeilDiv(r, stripe.blockRowCount)
            /\ \A c \in Columns : \A b \in 0..(stripe.blockCount - 1) :
                 stripe.blockSkipNodeArray[c][b].rowCount
                 = IF b < stripe.blockCount - 1 THEN stripe.blockRowCount
                   ELSE r - stripe.blockRowCount * (stripe.blockCount - 1)
    /\ pc \in {"footer", "swapped"}
       => /\ Cardinality(SessionStripes)
             = CeilDiv(Len(history.session.rows), writeState.stripeMaxRowCount)
          /\ Len(writeState.tableFooter.stripeMetadataList)
             = Len(history.session.priorFooter.stripeMetadataList)
               + Cardinality(SessionStripes)

\* a session of three rows with S = 2 has reached the header swap with one full
\* stripe and one of a single row
C10_Witness ==
    /\ pc = "swapped"
    /\ Len(history.session.rows) = 3
    /\ writeState.stripeMaxRowCount = 2
    /\ Cardinality(SessionStripes) = 2

\* the (starting_block, block_count) the header page of a fork holds
HeaderMetadata(fork) ==
    IF Len(fork) = 0 THEN [startingBlock |-> 0, blockCount |-> 0]
    ELSE DeserializeTableFooterMetadata(fork[1])

\* the metadata of the stripes the current session has flushed, in flush order
SessionStripeMetadata ==
    [i \in 1..(Len(history.stripes) - history.session.firstStripe + 1) |->
        history.stripes[history.session.firstStripe + i - 1].stripeMetadata]

\* C5: once end_write has rewritten the header page, its (starting_block,
\* block_count) has starting_block >= 1 and names blocks of the footer fork whose
\* payloads, in block order, are the footer stream serialized from the writer's
\* footer, which lists the stripes of the earlier sessions and then this
\* session's; after the return the footer read back is that footer.
C5_HeaderNamesFooter ==
    /\ pc = "swapped"
       => /\ HeaderMetadata(footerFork).startingBlock >= 1
          /\ HeaderMetadata(footerFork).blockCount
             = CeilDiv(Len(WholeFooter(writeState.tableFooter)), PageDataSize)
          /\ FooterRangeReadable(footerFork, HeaderMetadata(footerFork).startingBlock,
                                 HeaderMetadata(footerFork).blockCount)
          /\ FooterRangeStream(footerFork, HeaderMetadata(footerFork).startingBlock,
                               HeaderMetadata(footerFork).blockCount)
             = WholeFooter(writeState.tableFooter)
          /\ writeState.tableFooter.stripeMetadataList
             = history.session.priorFooter.stripeMetadataList \o SessionStripeMetadata
    /\ (pc = "idle" /\ history.lastEvent = "closed")
       => ReadFooter(footerFork)
          = [status |-> "ok", tableFooter |-> history.committedFooter]

\* the header has been rewritten by a session resumed over a footer with
\* stripes, which added a stripe; the new footer takes more than one page and
\* does not start at block 1
C5_Witness ==
    /\ pc = "swapped"
    /\ history.session.priorFooter.stripeMetadataList # <<>>
    /\ Len(SessionStripeMetadata) >= 1
    /\ HeaderMetadata(footerFork).blockCount >= 2
    /\ HeaderMetadata(footerFork).startingBlock > 1

\* C3: every step of end_write up to the rewrite of the header page leaves the
\* header page and every page of the range it names as they were, the range
\* chosen for the new footer does not meet that range, and the footer read back
\* stays the prior one.
C3_PriorFooterIntact ==
    [][pc' = "footer"
       => /\ Len(footerFork) >= 1 => footerFork'[1] = footerFork[1]
          /\ HeaderMetadata(footerFork') = HeaderMetadata(footerFork)
          /\ \A b \in 1..(Len(footerFork) - 1) :
               (/\ HeaderMetadata(footerFork).startingBlock >= 1
                /\ b >= HeaderMetadata(footerFork).startingBlock
                /\ b < HeaderMetadata(footerFork).startingBlock
                       + HeaderMetadata(footerFork).blockCount)
               => /\ footerFork'[b + 1] = footerFork[b + 1]
                  /\ \/ b < footerWrite'.newStartingBlock
                     \/ b >= footerWrite'.newStartingBlock + footerWrite'.actualBlockCount
          /\ ReadFooter(footerFork') = ReadFooter(footerFork)]_vars

\* end_write has written a page of the new footer at block 1 while the header
\* names a range further on, and the footer has been placed there before
C3_Witness ==
    /\ pc = "footer"
    /\ footerWrite.currentBlockNumber >= 1
    /\ footerWrite.startingBlock > 1
    /\ footerWrite.newStartingBlock = 1
    /\ ReadFooter(footerFork).status = "ok"

\* C4: after a crash during end_write and the replay of the log, with either
\* value of the logging flag, the footer read back is the prior footer when the
\* crash came before the header rewrite, and the prior or the new footer when it
\* came after it.
C4_CrashLeavesAFooter ==
    (pc = "idle" /\ history.lastEvent = "crashed"
     /\ history.crashedAt \in {"footer", "swapped"})
        => \/ ReadFooter(footerFork)
              = [status |-> history.session.priorStatus,
                 tableFooter |-> history.session.priorFooter]
           \/ /\ history.crashedAt = "swapped"
              /\ ReadFooter(footerFork)
                 = [status |-> "ok", tableFooter |-> history.crashedFooter]

\* the buffers of a flushed stripe in the order the stripe format lays them out
FlushOrder(stripe) ==
    [c \in 1..natts |-> StripeSkipListBuffers(stripe)[c - 1]]
    \o Concat([c \in Columns |->
                  [b \in 1..stripe.blockCount |->
                      stripe.columnBuffersArray[c][b - 1].existsBuffer]
                  \o [b \in 1..stripe.blockCount |->
                         stripe.columnBuffersArray[c][b - 1].valueBuffer]], natts)
    \o << SerializeStripeFooter(
              CreateStripeFooter([blockCount |-> stripe.blockCount,
                                  blockSkipNodeArray |-> stripe.blockSkipNodeArray],
                                 StripeSkipListBuffers(stripe))) >>

\* the bytes of a sequence of buffers, one after the other
JoinBuffers(buffers) == Concat([i \in 0..(Len(buffers) - 1) |-> buffers[i + 1]], Len(buffers))

\* C11: a step that flushes a stripe calls WriteToFile on the skip-list buffers
\* of columns 0..C-1, then per column on all its exists buffers in block order
\* followed by all its value buffers in block order, then on the stripe footer;
\* and the step adds exactly these bytes, in this order, to the data fork.
C11_FlushOrder ==
    [][Len(history'.stripes) > Len(history.stripes)
       => /\ history'.stripes[Len(history'.stripes)].calls
             = FlushOrder(history'.stripes[Len(history'.stripes)])
          /\ DataStream(dataFork')
             = DataStream(dataFork)
               \o JoinBuffers(history'.stripes[Len(history'.stripes)].calls)]_vars

\* a stripe of two blocks has been flushed whose first column has a value in
\* both blocks, so that exists and value buffers of different blocks alternate
\* in any other order
C11_Witness ==
    \E k \in 1..Len(history.stripes) :
        /\ history.stripes[k].blockCount = 2
        /\ history.stripes[k].columnBuffersArray[0][0].valueBuffer # << >>
        /\ history.stripes[k].columnBuffersArray[0][1].valueBuffer # << >>
        /\ history.stripes[k].stripeMetadata.fileOffset > 0

\* where the stripes of a footer end: the end of its last stripe, 0 without one
EndOfStripes(tableFooter) ==
    IF tableFooter.stripeMetadataList = << >> THEN 0
    ELSE tableFooter.stripeMetadataList[Len(tableFooter.stripeMetadataList)].fileOffset
         + StripeSize(tableFooter.stripeMetadataList[Len(tableFooter.stripeMetadataList)])

IsPrefix(s, t) == Len(s) <= Len(t) /\ SubSeq(t, 1, Len(s)) = s

\* C12: begin_write puts the cursor at the end of the last stripe of the footer
\* it read (0 without stripes), and no write_row or end_write step of the
\* session changes a byte the data fork holds before that offset: every page
\* keeps its payload as a prefix of its new payload and no page disappears.
C12_AppendOnly ==
    [][/\ (pc = "idle" /\ pc' = "open")
          => /\ writeState'.currentFileOffset
                = EndOfStripes(ReadFooter(footerFork).tableFooter)
             /\ writeState'.activeBlockNumber
                = writeState'.currentFileOffset \div PageDataSize
             /\ dataFork' = dataFork
       /\ (pc # "idle" /\ pc' # "idle")
          => /\ Len(dataFork') >= Len(dataFork)
             /\ \A b \in 1..Len(dataFork) :
                  IsPrefix(dataFork[b].data, dataFork'[b].data)
             /\ \A i \in 1..Min(EndOfStripes(history.session.priorFooter),
                                 Len(DataStream(dataFork))) :
                  DataStream(dataFork')[i] = DataStream(dataFork)[i]]_vars

\* a session resumed over a footer whose stripes end inside a page has flushed
\* a stripe of its own
C12_Witness ==
    /\ pc = "open"
    /\ history.session.priorFooter.stripeMetadataList # << >>
    /\ EndOfStripes(history.session.priorFooter) % PageDataSize # 0
    /\ SessionStripes # {}
    /\ writeState.currentFileOffset > EndOfStripes(history.session.priorFooter)

\* C13: in a session without write_row, end_write adds no byte to the data
\* fork and flushes no stripe, and once the header page is rewritten the footer
\* read back is well formed and lists exactly the stripes of the footer read at
\* begin_write (none for a new table).
C13_EmptySession ==
    [][(history.session.rows = << >> /\ pc \in {"open", "footer"}
        /\ pc' \in {"footer", "swapped"})
       => /\ dataFork' = dataFork
          /\ history'.stripes = history.stripes
          /\ pc' = "swapped"
             => /\ ReadFooter(footerFork').status = "ok"
                /\ ReadFooter(footerFork').tableFooter.stripeMetadataList
                   = history.session.priorFooter.stripeMetadataList
                /\ history.session.priorStatus = "absent"
                   => ReadFooter(footerFork').tableFooter.stripeMetadataList = << >>]_vars

\* a session over a footer with stripes has reached the header rewrite without
\* a write_row call
C13_Witness ==
    /\ pc = "swapped"
    /\ history.session.rows = << >>
    /\ history.session.priorFooter.stripeMetadataList # << >>
    /\ ReadFooter(footerFork).tableFooter.stripeMetadataList # << >>

\* the codec refuses every value buffer of the open stripe: those of the blocks
\* serialized so far were stored as they were, and those of the block under
\* assembly do not get smaller
CodecRefusesOpenStripe ==
    /\ \A c \in Columns :
         \A b \in 0..((stripeBuffers.rowCount \div writeState.tableFooter.blockRowCount) - 1) :
            stripeBuffers.columnBuffersArray[c][b].valueCompressionType = COMPRESSION_NONE
    /\ \A c \in Columns :
         ~CompressBuffer(blockDataArray[c].valueBuffer, COMPRESSION_PG_LZ).compressed

BlockRange(first, count) == first..(first + count - 1)

\* C15: while CStoreWriteFooter writes the footer pages, the starting block it
\* chose is 1 when the footer fork had no block, 1 when the header did not parse
\* or gave starting block 0, 1 when the new block count is below the current
\* starting block, and the current starting block plus the current block count
\* otherwise; with a header that parsed, the new range holds neither block 0 nor
\* a block of the current range.
C15_NewStartingBlock ==
    pc = "footer" =>
        LET fw == footerWrite
            header == DeserializeTableFooterMetadata(footerFork[1])
            parsed == fw.originalBlockCount > 0 /\ header.startingBlock >= 1
            newRange == BlockRange(fw.newStartingBlock, fw.actualBlockCount)
        IN /\ fw.actualBlockCount = FooterBlockCount(Len(fw.wholeFooter))
           /\ fw.originalBlockCount = 0 => fw.newStartingBlock = 1
           /\ (fw.originalBlockCount > 0 /\ header.startingBlock = 0)
                 => fw.newStartingBlock = 1
           /\ (parsed /\ fw.actualBlockCount < header.startingBlock)
                 => fw.newStartingBlock = 1
           /\ (parsed /\ fw.actualBlockCount >= header.startingBlock)
                 => fw.newStartingBlock = header.startingBlock + header.blockCount
           /\ parsed =>
                 /\ 0 \notin newRange
                 /\ newRange \cap BlockRange(header.startingBlock, header.blockCount) = {}

\* a footer being appended after a current range that starts beyond block 1
C15_Witness ==
    /\ pc = "footer"
    /\ footerWrite.currentBlockNumber >= 1
    /\ footerWrite.startingBlock > 1
    /\ footerWrite.blockCount >= 1
    /\ footerWrite.newStartingBlock = footerWrite.startingBlock + footerWrite.blockCount

\* every footer committed so far, and the one being written if any, has n blocks
FootersOccupy(n) ==
    /\ \A i \in 1..Len(history.footerRanges) : history.footerRanges[i].blockCount = n
    /\ pc = "footer" => footerWrite.actualBlockCount = n

\* C16: when every session so far ended with end_write and every footer had n
\* blocks, the committed starting blocks are 1, n + 1, 1, n + 1, ..., the header
\* names the last of them, and the footer fork has at most 2n + 1 blocks.
C16_PingPong ==
    history.allClosed =>
        \A n \in 1..Len(footerFork) :
            FootersOccupy(n) =>
                /\ \A i \in 1..Len(history.footerRanges) :
                      history.footerRanges[i].startingBlock
                      = IF i % 2 = 1 THEN 1 ELSE n + 1
                /\ (pc # "footer" /\ history.footerRanges # <<>>)
                      => DeserializeTableFooterMetadata(footerFork[1])
                         = history.footerRanges[Len(history.footerRanges)]
                /\ Len(footerFork) <= 2 * n + 1

\* three header swaps with footers of one size: block 1, block n + 1, block 1 again
C16_Witness ==
    /\ history.allClosed
    /\ pc = "swapped"
    /\ Len(history.footerRanges) = 3
    /\ FootersOccupy(history.footerRanges[1].blockCount)
    /\ history.footerRanges[2].startingBlock = history.footerRanges[1].blockCount + 1
    /\ history.footerRanges[3].startingBlock = 1
    /\ Len(footerFork) = 2 * history.footerRanges[1].blockCount + 1

\* the buffers taken with acquire and not yet given back with
\* UnlockReleaseBuffer once the first i of the calls have been made, starting
\* with those of held
HoldersAfter(held, calls, i, acquire) ==
    LET buffer(j) == [fork |-> calls[j].fork, block |-> calls[j].block]
        about(buf) == { j \in 1..i :
                           /\ buffer(j) = buf
                           /\ calls[j].op \in {acquire, "UnlockReleaseBuffer"} }
    IN { buf \in held \cup { buffer(j) : j \in 1..i } :
            IF about(buf) = {}
            THEN buf \in held
            ELSE \E j \in about(buf) :
                    /\ calls[j].op = acquire
                    /\ \A k \in about(buf) : k <= j }

\* the buffers pinned once the first i of the calls have been made
HeldAfter(held, calls, i) == HoldersAfter(held, calls, i, "ReadBufferExtended")

\* C17: at every point of every step of the writer, at most one page buffer is
\* pinned and locked.
C17_OneBufferHeld ==
    [][\A i \in 0..Len(events') :
          Cardinality(HeldAfter(pinned, events', i)) <= 1]_vars

\* the buffers the model holds between steps are those its calls leave held
PinnedFollowsCalls ==
    [][pc' # "idle" => pinned' = HeldAfter(pinned, events', Len(events'))]_vars

\* C18: the header update of every end_write appends a new-page record of
\* footer block 0 with the page as written, whatever the logging flag; a step
\* that writes data pages appends one new-page record per page write, with the
\* page as left, when the flag is true and none when it is false; with the flag
\* false the log of the session holds no record of the data fork at all.
C18_WalRecords ==
    [][/\ (pc = "footer" /\ pc' = "swapped")
            => wal' = Append(wal, NewPageRecord("footer", 0, footerFork'[1]))
       /\ (pc = "open" /\ pc' \in {"open", "footer"})
            => LET added == SubSeq(wal', Len(wal) + 1, Len(wal'))
                   dataRecords == { i \in 1..Len(added) : added[i].fork = "data" }
                   pageWrites == { i \in 1..Len(events') :
                                      /\ events'[i].fork = "data"
                                      /\ events'[i].op = "memcpy" }
                   changed == { b \in 0..(Len(dataFork') - 1) :
                                   b >= Len(dataFork) \/ dataFork'[b + 1] # dataFork[b + 1] }
               IN /\ IsPrefix(wal, wal')
                  /\ \A i \in 1..Len(added) : added[i].fork = "data"
                  /\ IF writeState.logging
                     THEN /\ Cardinality(dataRecords) = Cardinality(pageWrites)
                          /\ \A i \in dataRecords : added[i].kind = "newpage"
                          /\ \A b \in changed :
                                \E i \in dataRecords :
                                   /\ added[i] = NewPageRecord("data", b, dataFork'[b + 1])
                                   /\ \A k \in dataRecords :
                                         added[k].block = b => k <= i
                     ELSE dataRecords = {}
       /\ (pc' # "idle" /\ ~writeState'.logging)
            => \A i \in 1..Len(wal') : wal'[i].fork # "data"]_vars

\* a session with logging off flushed a stripe and swapped the header: the log
\* holds the header page and nothing else
C18_Witness ==
    /\ pc = "swapped"
    /\ ~writeState.logging
    /\ SessionStripes # {}
    /\ wal = << NewPageRecord("footer", 0, footerFork[1]) >>

\* the buffers exclusively locked once the first i of the calls have been made
LockedAfter(held, calls, i) == HoldersAfter(held, calls, i, "LockBuffer")

\* a critical section is open once the first i of the calls have been made
InCriticalSection(calls, i) ==
    \E j \in 1..i :
        /\ calls[j].op = "START_CRIT_SECTION"
        /\ \A k \in (j + 1)..i : calls[k].op # "END_CRIT_SECTION"

\* a WAL record is due for a change of the buffer: always for the footer header
\* page, with the logging flag for the others
RecordDue(buf, logging) == buf = HeaderBuffer \/ logging

\* calls[i] is a call named op on the buffer buf
IsCall(calls, i, op, buf) ==
    /\ i \in 1..Len(calls)
    /\ calls[i] = BufferCall(op, buf.fork, buf.block)

\* the blocks of a fork a step changed or added
ChangedBlocks(before, after) ==
    { b \in 0..(Len(after) - 1) : b >= Len(before) \/ after[b + 1] # before[b + 1] }

\* C19: in the calls of every step of a session, a page is initialized or
\* written only while its buffer is exclusively locked and a critical section
\* is open; PageInit is followed by the copy, the copy by MarkBufferDirty, then
\* the WAL record exactly when one is due, then END_CRIT_SECTION, then
\* UnlockReleaseBuffer; and every page the step changed has such a copy.
C19_PageModificationOrder ==
    [][pc' \in {"open", "footer", "swapped"} =>
        /\ \A i \in 1..Len(events') :
              LET buf == [fork |-> events'[i].fork, block |-> events'[i].block]
                  end == IF RecordDue(buf, writeState'.logging) THEN i + 3 ELSE i + 2
              IN /\ events'[i].op \in {"PageInit", "memcpy"}
                      => /\ buf \in LockedAfter(pinned, events', i - 1)
                         /\ InCriticalSection(events', i - 1)
                 /\ events'[i].op = "PageInit" => IsCall(events', i + 1, "memcpy", buf)
                 /\ events'[i].op = "memcpy"
                      => /\ IsCall(events', i + 1, "MarkBufferDirty", buf)
                         /\ RecordDue(buf, writeState'.logging)
                               => IsCall(events', i + 2, "LOG_NEWPAGE_BUFFER", buf)
                         /\ IsCall(events', end, "END_CRIT_SECTION", buf)
                         /\ IsCall(events', end + 1, "UnlockReleaseBuffer", buf)
                 /\ events'[i].op \in {"MarkBufferDirty", "LOG_NEWPAGE_BUFFER"}
                      => InCriticalSection(events', i - 1)
        /\ \A b \in ChangedBlocks(dataFork, dataFork') :
              \E i \in 1..Len(events') :
                 IsCall(events', i, "memcpy", [fork |-> "data", block |-> b])
        /\ \A b \in ChangedBlocks(footerFork, footerFork') :
              \/ \E i \in 1..Len(events') :
                    IsCall(events', i, "memcpy", [fork |-> "footer", block |-> b])
              \* the header page allocated with P_NEW, still zero
              \/ b = 0 /\ footerFork = << >> /\ footerFork'[1] = ZeroPage]_vars

\* a logged write_row step wrote into the active page and into a new one
C19_Witness ==
    /\ pc = "open"
    /\ writeState.logging
    /\ \E i \in 1..Len(events) : \E j \in (i + 1)..Len(events) :
          /\ events[i].op = "memcpy"
          /\ events[i - 1].op = "START_CRIT_SECTION"
          /\ events[j].op = "PageInit"
          /\ events[j].block = events[i].block + 1

\* the longest buffer handed to WriteToFile below: two pages and a byte
MaxAppendLength == 2 * PageDataSize + 1

\* n bytes, all different
AppendInput(n) == [i \in 1..n |-> 100 + i]

\* the bytes block b holds after a write beyond those it held before
AddedBytes(before, after, b) ==
    IF b < Len(before)
    THEN SubSeq(after[b + 1].data, Len(before[b + 1].data) + 1, Len(after[b + 1].data))
    ELSE after[b + 1].data

\* the page has no room: its payload is PageDataSize bytes long, or it was never
\* initialized and pd_upper = pd_lower = 0
PageIsFull(page) == ~page.init \/ Len(page.data) = PageDataSize

CommittedRange == DeserializeTableFooterMetadata(footerFork[1])

\* C21: once end_write has swapped the header, the pages of the range it names
\* hold a stream of T = 4 + footer length + postscript length + 1 bytes: the
\* first four hold T, then come the serialized footer and the postscript, the
\* last byte holds the postscript length; the range has ceil(T / PageDataSize)
\* pages, each but the last with PageDataSize bytes, and their payload lengths
\* sum to T.
C21_FooterStream ==
    pc = "swapped" =>
        LET range == CommittedRange
            stream == FooterRangeStream(footerFork, range.startingBlock, range.blockCount)
            serializedFooter == SerializeTableFooter(writeState.tableFooter)
            serializedPostscript == SerializePostScript(Len(serializedFooter))
            total == 4 + Len(serializedFooter) + Len(serializedPostscript) + 1
            page(i) == footerFork[range.startingBlock + i + 1]
        IN /\ FooterRangeReadable(footerFork, range.startingBlock, range.blockCount)
           /\ Len(stream) = total
           /\ FromBytesLE(SubSeq(stream, 1, 4)) = total
           /\ SubSeq(stream, 5, total - 1) = serializedFooter \o serializedPostscript
           /\ stream[total] = Len(serializedPostscript)
           /\ range.blockCount = CeilDiv(total, PageDataSize)
           /\ \A i \in 0..(range.blockCount - 2) : Len(page(i).data) = PageDataSize
           /\ SumTo([i \in 0..(range.blockCount - 1) |-> Len(page(i).data)],
                    range.blockCount) = total

\* a committed footer of several pages, the last of them partly filled
C21_Witness ==
    /\ pc = "swapped"
    /\ CommittedRange.blockCount >= 2
    /\ Len(footerFork[CommittedRange.startingBlock + CommittedRange.blockCount].data)
       \in 1..(PageDataSize - 1)
    /\ writeState.tableFooter.stripeMetadataList # << >>

\* postscript lengths on both sides of CSTORE_POSTSCRIPT_SIZE_MAX
PostscriptLengths == {1, CSTORE_POSTSCRIPT_SIZE_MAX - 1, CSTORE_POSTSCRIPT_SIZE_MAX,
                      CSTORE_POSTSCRIPT_SIZE_MAX + 1}

\* a postscript of n bytes declaring the footer length
PostscriptOfLength(tableFooterLength, n) ==
    SerializePostScript(tableFooterLength) \o Zeros(n - 1)

WrittenStripeFooter(stripe) == DeserializeStripeFooter(stripe.calls[Len(stripe.calls)])

\* the buffers FlushStripe wrote between the skip lists and the stripe footer
DataRegionCalls(stripe) == SubSeq(stripe.calls, natts + 1, Len(stripe.calls) - 1)

\* C23: in every flushed stripe each skip node's lengths are those of the
\* block's buffers, its exists and value offsets are the sums of the lengths of
\* the column's earlier blocks, the stripe footer's exists and value sizes are
\* the column's sums over all blocks, and the metadata's data length is the sum
\* of those sizes over the columns and the number of bytes written for the data
\* region.
C23_OffsetsAndSizes ==
    \A k \in 1..Len(history.stripes) :
        LET stripe == history.stripes[k]
            node(c, b) == stripe.blockSkipNodeArray[c][b]
            existsLengths(c) == [b \in 0..(stripe.blockCount - 1) |-> node(c, b).existsLength]
            valueLengths(c) == [b \in 0..(stripe.blockCount - 1) |-> node(c, b).valueLength]
            stripeFooter == WrittenStripeFooter(stripe)
        IN /\ \A c \in Columns : \A b \in 0..(stripe.blockCount - 1) :
                 /\ node(c, b).existsLength
                    = Len(stripe.columnBuffersArray[c][b].existsBuffer)
                 /\ node(c, b).valueLength
                    = Len(stripe.columnBuffersArray[c][b].valueBuffer)
                 /\ node(c, b).existsBlockOffset = SumTo(existsLengths(c), b)
                 /\ node(c, b).valueBlockOffset = SumTo(valueLengths(c), b)
           /\ \A c \in Columns :
                 /\ stripeFooter.existsSizeArray[c]
                    = SumTo(existsLengths(c), stripe.blockCount)
                 /\ stripeFooter.valueSizeArray[c]
                    = SumTo(valueLengths(c), stripe.blockCount)
           /\ stripe.stripeMetadata.dataLength
              = SumTo([c \in Columns |-> stripeFooter.existsSizeArray[c]
                                         + stripeFooter.valueSizeArray[c]], natts)
           /\ stripe.stripeMetadata.dataLength = Len(JoinBuffers(DataRegionCalls(stripe)))

\* a flushed stripe of two blocks whose second block starts at a positive
\* exists offset and a positive value offset in both columns
C23_Witness ==
    \E k \in 1..Len(history.stripes) :
        /\ history.stripes[k].blockCount = 2
        /\ \A c \in Columns :
              /\ history.stripes[k].blockSkipNodeArray[c][1].existsBlockOffset > 0
              /\ history.stripes[k].blockSkipNodeArray[c][1].valueBlockOffset > 0
              /\ history.stripes[k].blockSkipNodeArray[c][1].valueLength > 0

\* the datums of the non-null cells of column c among the first n of the rows,
\* serialized one after the other
RECURSIVE SerializedValues(_, _, _)
SerializedValues(rows, c, n) ==
    IF n = 0 THEN << >>
    ELSE IF rows[n][c].isNull THEN SerializedValues(rows, c, n - 1)
    ELSE SerializeSingleDatum(SerializedValues(rows, c, n - 1), rows[n][c].value, Att(c))

\* C24: in every block of every flushed stripe the value compression is
\* COMPRESSION_PG_LZ exactly when the codec, asked for the session's kind,
\* compressed the serialized values of that block's rows, and then the value
\* buffer is the codec's output; otherwise the compression is COMPRESSION_NONE
\* and the value buffer is the serialized values themselves.  Under
\* COMPRESSION_NONE no block is recorded as COMPRESSION_PG_LZ.
C24_CompressionPerBlock ==
    \A k \in 1..Len(history.stripes) : \A c \in Columns :
        \A b \in 0..(history.stripes[k].blockCount - 1) :
            LET stripe == history.stripes[k]
                rows == BlockRows(stripe, b)
                values == SerializedValues(rows, c, Len(rows))
                result == CompressBuffer(values, stripe.compressionType)
                stored == stripe.columnBuffersArray[c][b]
            IN /\ stored.valueCompressionType \in {COMPRESSION_NONE, COMPRESSION_PG_LZ}
               /\ stored.valueCompressionType = COMPRESSION_PG_LZ <=> result.compressed
               /\ result.compressed => stored.valueBuffer = result.output
               /\ ~result.compressed => stored.valueBuffer = values
               /\ stripe.compressionType = COMPRESSION_NONE
                     => stored.valueCompressionType = COMPRESSION_NONE

\* a flushed stripe with a compressed block before an uncompressed block of the
\* same column that holds a value
C24_Witness ==
    \E k \in 1..Len(history.stripes) : \E c \in Columns :
        /\ history.stripes[k].blockCount = 2
        /\ history.stripes[k].columnBuffersArray[c][0].valueCompressionType
           = COMPRESSION_PG_LZ
        /\ history.stripes[k].columnBuffersArray[c][1].valueCompressionType
           = COMPRESSION_NONE
        /\ history.stripes[k].columnBuffersArray[c][1].valueBuffer # << >>

\* one datum as the value buffer holds it: its bytes, then zero bytes up to the
\* next multiple of the column's alignment
PaddedDatum(value, att) ==
    LET bytes == IF att.attbyval THEN BytesLE(value, att.attlen) ELSE value
    IN bytes \o Zeros((att.attalign - (Len(bytes) % att.attalign)) % att.attalign)

\* the padded datums of the non-null cells of column c of the rows, in row order
RECURSIVE PaddedDatums(_, _, _)
PaddedDatums(rows, c, n) ==
    IF n = 0 THEN << >>
    ELSE PaddedDatums(rows, c, n - 1)
         \o (IF rows[n][c].isNull THEN << >> ELSE PaddedDatum(rows[n][c].value, Att(c)))

\* the rows of the block under assembly: those written since the last full block
PendingBlockRows ==
    OpenStripeRows(history.session.rows,
                   stripeBuffers.rowCount % writeState.tableFooter.blockRowCount)

\* the working value buffers hold one padded datum per non-null cell of the
\* block under assembly and nothing else (nothing at the start of a block), and
\* the block's skip nodes have counted every row, null or not
WorkingBlockFollowsRows ==
    (pc = "open" /\ stripeBuffers.valid) =>
        \A c \in Columns :
            /\ blockDataArray[c].valueBuffer
               = PaddedDatums(PendingBlockRows, c, Len(PendingBlockRows))
            /\ PendingBlockRows # << >> =>
                  stripeSkipList.blockSkipNodeArray[c]
                     [stripeBuffers.rowCount \div writeState.tableFooter.blockRowCount]
                     .rowCount = Len(PendingBlockRows)

\* every block of every flushed stripe has counted its rows, and an
\* uncompressed one holds one padded datum per non-null cell
FlushedBlocksFollowRows ==
    \A k \in 1..Len(history.stripes) : \A c \in Columns :
        \A b \in 0..(history.stripes[k].blockCount - 1) :
            LET stripe == history.stripes[k]
                rows == BlockRows(stripe, b)
                stored == stripe.columnBuffersArray[c][b]
            IN /\ stripe.blockSkipNodeArray[c][b].rowCount = Len(rows)
               /\ stored.valueCompressionType = COMPRESSION_NONE
                     => stored.valueBuffer = PaddedDatums(rows, c, Len(rows))

\* in every uncompressed block of every flushed stripe there are as many datums
\* as exists flags set
DatumsMatchExistsFlags ==
    \A k \in 1..Len(history.stripes) : \A c \in Columns :
        \A b \in 0..(history.stripes[k].blockCount - 1) :
            LET stripe == history.stripes[k]
                rows == BlockRows(stripe, b)
                stored == stripe.columnBuffersArray[c][b]
            IN stored.valueCompressionType = COMPRESSION_NONE
                  => Cardinality(NonNullRows(rows, c))
                     = Cardinality({ i \in 0..(Len(rows) - 1) :
                                        ExistsBit(stored.existsBuffer, i) })

\* C25: a null cell adds nothing to the value buffer and a non-null cell adds
\* one datum padded with zero bytes to its alignment, every cell counting in
\* the skip node's row count; the working value buffer is empty at the start
\* of each block; and an uncompressed block holds as many datums as it has
\* exists flags set.
C25_ValueBufferFollowsRows ==
    /\ WorkingBlockFollowsRows
    /\ FlushedBlocksFollowRows
    /\ DatumsMatchExistsFlags

\* blockRowIndex of the write_row call that takes the writer from this state
NextBlockRowIndex ==
    (IF stripeBuffers.valid THEN stripeBuffers.rowCount ELSE 0)
    % writeState.tableFooter.blockRowCount

\* C26: in every write_row call the index of the row within its block is below
\* the capacity of the exists arrays allocated at begin_write, also in a session
\* resumed over a footer whose block_row_count differs from the argument.
C26_ExistsIndexInBounds ==
    [][(pc = "open" /\ history'.rowsWritten = history.rowsWritten + 1)
          => NextBlockRowIndex < writeState.existsCapacity]_vars

\* a uint64 stripeMaxRowCount as high * 2^32 + low
StripeMaxRowCounts64 ==
    { [high |-> high, low |-> low] : high \in {0, 1}, low \in 0..MaxRows }

\* the uint32 stripeMaxRowCount parameter of CreateEmptyStripeBuffers and
\* CreateEmptyStripeSkipList, given writeState->stripeMaxRowCount (uint64)
TruncateToUint32(stripeMaxRowCount64) == stripeMaxRowCount64.low

\* stripeBuffers->rowCount >= writeState->stripeMaxRowCount, compared as uint64:
\* rowCount is below 2^32
StripeIsFull64(rowCount, stripeMaxRowCount64) ==
    stripeMaxRowCount64.high = 0 /\ StripeIsFull(rowCount, stripeMaxRowCount64.low)

\* the stripe is still open when its row number n (from 0) arrives
StripeOpenForRow(n, stripeMaxRowCount64) ==
    \A rowCount \in 1..n : ~StripeIsFull64(rowCount, stripeMaxRowCount64)

\* C27: the block index of the next row and every index below the block count
\* are below the number of block slots of the open stripe; and for every
\* stripeMaxRowCount and the table's block_row_count, every row a stripe can
\* take has a block index below (S / R) + 1 with S narrowed to 32 bits.
C27_BlockIndexInBounds ==
    pc = "open" =>
        /\ stripeBuffers.valid =>
              /\ stripeBuffers.rowCount \div writeState.tableFooter.blockRowCount
                 < stripeBuffers.maxBlockCount
              /\ stripeSkipList.blockCount <= stripeSkipList.maxBlockCount
              /\ stripeSkipList.maxBlockCount = stripeBuffers.maxBlockCount
        /\ \A S \in StripeMaxRowCounts64 : \A n \in 0..(MaxRows - 1) :
              StripeOpenForRow(n, S)
                 => n \div writeState.tableFooter.blockRowCount
                    < MaxBlockCount(TruncateToUint32(S),
                                    writeState.tableFooter.blockRowCount)

\* the block slots of a column whose exists and value buffers are both set
SerializedBlocks(columnBuffers) ==
    { b \in DOMAIN columnBuffers :
         ~columnBuffers[b].existsBufferNull /\ ~columnBuffers[b].valueBufferNull }

\* the block slots of a column with neither buffer set
UnserializedBlocks(columnBuffers) ==
    { b \in DOMAIN columnBuffers :
         columnBuffers[b].existsBufferNull /\ columnBuffers[b].valueBufferNull }

\* C28: in every flushed stripe the blocks below block_count, and no others,
\* have their exists and value buffers; in an open stripe exactly the full
\* blocks have them, the block under assembly and those after it have none; and
\* the flush of end_write leaves the buffers of the full blocks as write_row
\* serialized them.
C28_SerializedOnce ==
    [][/\ \A k \in 1..Len(history'.stripes) : \A c \in Columns :
             LET stripe == history'.stripes[k]
             IN /\ SerializedBlocks(stripe.columnBuffersArray[c])
                   = 0..(stripe.blockCount - 1)
                /\ UnserializedBlocks(stripe.columnBuffersArray[c])
                   = DOMAIN stripe.columnBuffersArray[c] \ 0..(stripe.blockCount - 1)
       /\ (pc' = "open" /\ stripeBuffers'.valid) =>
             \A c \in Columns :
                LET fullBlocks == stripeBuffers'.rowCount
                                  \div writeState'.tableFooter.blockRowCount
                IN /\ SerializedBlocks(stripeBuffers'.columnBuffersArray[c])
                      = 0..(fullBlocks - 1)
                   /\ UnserializedBlocks(stripeBuffers'.columnBuffersArray[c])
                      = DOMAIN stripeBuffers'.columnBuffersArray[c] \ 0..(fullBlocks - 1)
       /\ (pc = "open" /\ pc' = "footer" /\ Len(history'.stripes) > Len(history.stripes)) =>
             \A c \in Columns :
                \A b \in 0..((stripeBuffers.rowCount
                              \div writeState.tableFooter.blockRowCount) - 1) :
                   history'.stripes[Len(history'.stripes)].columnBuffersArray[c][b]
                   = stripeBuffers.columnBuffersArray[c][b]]_vars

\* a flushed stripe of a full block, serialized by write_row at its last row,
\* and a partial one, serialized by the flush
C28_Witness ==
    \E k \in 1..Len(history.stripes) :
        /\ history.stripes[k].blockCount = 2
        /\ Len(history.stripes[k].rows) % history.stripes[k].blockRowCount # 0
        /\ \A c \in Columns :
              SerializedBlocks(history.stripes[k].columnBuffersArray[c]) = {0, 1}

\* the range a parseable header names lies inside the fork
HeaderRangeInsideFork(fork) ==
    HeaderMetadata(fork).startingBlock >= 1
        => HeaderMetadata(fork).startingBlock + HeaderMetadata(fork).blockCount
           <= Len(fork)

\* the block BufferGetBlockNumber gave for the footer page written last
LastFooterPageBlock == events[1].block

\* C29: between sessions, after completed and crashed ones, a header that
\* parses has starting_block >= 1 and names a range inside the footer fork; and
\* in end_write every footer page written so far, the ones obtained as new
\* pages included, is at block new_start + i, so that the range of the header
\* swap is the run of blocks the pages were written to.
C29_RangeInsideFork ==
    /\ pc = "idle" => HeaderRangeInsideFork(footerFork)
    /\ (pc = "footer" /\ footerWrite.currentBlockNumber >= 1)
       => /\ LastFooterPageBlock
             = footerWrite.newStartingBlock + footerWrite.currentBlockNumber - 1
          /\ footerWrite.newStartingBlock + footerWrite.currentBlockNumber
             <= Len(footerFork)

\* the payload bytes of the data fork: the sum over its pages of pd_lower minus
\* the page header size
TotalPayload(fork) == SumTo([b \in 0..(Len(fork) - 1) |-> Len(fork[b + 1].data)], Len(fork))

\* the session has flushed a stripe
SessionHasFlushed == Len(history.stripes) >= history.session.firstStripe

\* C30: while every session so far was completed by end_write, in a session
\* the payload of the data fork adds up to currentFileOffset and every page
\* before the last one is full; once the session has flushed a stripe the
\* active block is the last block of the fork, which holds the last byte
\* written; before that the active block is currentFileOffset / D, which is the
\* last page when that page has room left, and otherwise the block the next
\* new page gets.
C30_CursorBlock ==
    (history.allClosed /\ pc \in {"open", "footer", "swapped"})
    => /\ TotalPayload(dataFork) = writeState.currentFileOffset
       /\ \A b \in 1..(Len(dataFork) - 1) :
            dataFork[b].init /\ Len(dataFork[b].data) = PageDataSize
       /\ SessionHasFlushed
          => /\ writeState.activeBlockNumber = Len(dataFork) - 1
             /\ writeState.activeBlockNumber
                = (writeState.currentFileOffset - 1) \div PageDataSize
             /\ Len(dataFork[Len(dataFork)].data) >= 1
       /\ ~SessionHasFlushed
          => /\ writeState.activeBlockNumber
                = writeState.currentFileOffset \div PageDataSize
             /\ IF writeState.currentFileOffset % PageDataSize = 0
                THEN writeState.activeBlockNumber = Len(dataFork)
                ELSE /\ writeState.activeBlockNumber = Len(dataFork) - 1
                     /\ Len(dataFork[Len(dataFork)].data)
                        = writeState.currentFileOffset % PageDataSize

\* a resumed session, every one before it completed, has flushed a stripe that
\* began inside the partly filled last page its cursor named and went on into
\* a new page
C30_Witness ==
    /\ history.allClosed
    /\ pc = "open"
    /\ history.sessions = 2
    /\ SessionHasFlushed
    /\ history.session.priorFooter.stripeMetadataList # <<>>
    /\ BeginFileOffset(history.session.priorFooter) % PageDataSize # 0
    /\ writeState.activeBlockNumber
       > CursorBlock(BeginFileOffset(history.session.priorFooter))

====
